---- MODULE Spec2Model ----
(***************************************************************************)
(* A model of the rag-indexing crate of rag-rs: the document tree          *)
(* (tree_structrue/mod.rs), the markdown tree builder                      *)
(* (tree_structrue/markdown_bulid.rs), the recursive token chunker         *)
(* (recursive_splitting.rs), the tokenizer service (tiktoken.rs) and the   *)
(* FAQ chunker (faq.rs).                                                   *)
(*                                                                         *)
(* Strings are sequences of one-character strings.  Option<T> is a         *)
(* sequence of length 0 (None) or 1 (Some).  A NodeId (a random Uuid) is   *)
(* a natural number drawn from a counter, so every generated id is fresh.  *)
(***************************************************************************)
EXTENDS Integers, Sequences, FiniteSets, TLC

VARIABLES
    tree,       \* NodeTree: [nodes : NodeId -> Node, root : NodeId]
    nextId,     \* the next id Uuid::new_v4() hands out
    pool,       \* nodes constructed by the caller and not yet given to add_node
    op,         \* the last operation of the tree API that ran
    arg,        \* Option: the node the last add_node was called with
    result,     \* the Result of the last operation ("Ok" or the error)
    path,       \* the last get_ancestors: the Vec returned (as node ids), and
                \* whether its loop exited
    md,         \* the locals of MarkdownParser::parse
    open,       \* the tags pulldown_cmark has started and not yet ended
    pc,         \* where parse is: "parsing", "done" (Ok(tree)) or "error" (Err)
    nevents,    \* how many events the parser has produced
    created,    \* history: [id, kind, level] of every node parse added, in order
    input,      \* text_with_pages, the argument of RecursiveChunker::chunk
    max_tokens, \* RecursiveChunker.max_tokens
    ck,         \* the locals of RecursiveChunker::chunk
    cpc,        \* where chunk is: "chunking", "done" (returned) or "panicked"
    hards,      \* history: [text, windows, panicked] of every hard_split call
    cache,      \* BPE_CACHE: canonical model key -> encoder
    poisoned,   \* whether a thread panicked while it held the lock of BPE_CACHE
    lock,       \* Option: the thread that holds the lock of BPE_CACHE
    th,         \* per thread: where it is in count_tokens, and its locals
    built,      \* history: canonical key -> how many encoders were constructed for it
    calls,      \* history: [text, model, key, out] of every count_tokens call that ended;
                \* out is Some(count), or None when the call panicked
    ncalls,     \* how many count_tokens calls were started
    fcfg,       \* FAQChunker: [max_tokens, overlap, model]
    faq,        \* the locals of FAQChunker::chunk_by_qa
    fpc,        \* where the FAQ chunker is: "new", "ready", "chunking", "done", "panicked"
    groups      \* history: per split entry, the units each of its chunks was joined from

treeVars == <<tree, nextId, pool, op, arg, result, path>>

mdVars == <<md, open, pc, nevents, created>>

ckVars == <<input, max_tokens, ck, cpc, hards>>

tokVars == <<cache, poisoned, lock, th, built, calls, ncalls>>

faqVars == <<fcfg, faq, fpc, groups>>

vars == <<tree, nextId, pool, op, arg, result, path, md, open, pc, nevents, created, input, max_tokens, ck, cpc, hards, cache, poisoned, lock, th, built, calls, ncalls, fcfg, faq, fpc, groups>>

----------------------------------------------------------------------------
(* Bounds of the model *)

MaxNodes == 4       \* ids handed out in the tree specification
MaxPool == 2        \* constructed nodes waiting to be added
MaxEvents == 9      \* events of one markdown document
MaxLevel == 3       \* heading levels the documents use (markdown has 6)
MaxMdNodes == 4     \* nodes of a tree built by parse
MaxSentences == 10  \* sentences of a one-paragraph document
MaxParas == 2       \* paragraphs of a document made of paragraph shapes
MaxGrown == 2       \* nodes added to the tree before embeddings are stored

----------------------------------------------------------------------------
(* Strings *)

None == <<>>

Some(x) == <<x>>

RootLabel == <<"R", "o", "o", "t">>

\* the decimal digits of n, as format!("{}", n) writes them
RECURSIVE Digits(_)
Digits(n) ==
    LET d == <<"0", "1", "2", "3", "4", "5", "6", "7", "8", "9">>[(n % 10) + 1]
    IN IF n < 10 THEN <<d>> ELSE Digits(n \div 10) \o <<d>>

RECURSIVE Reverse(_)
Reverse(s) == IF s = <<>> THEN <<>> ELSE Reverse(Tail(s)) \o <<Head(s)>>

\* char::is_whitespace, on the characters the model uses
IsWhitespace(c) == c \in {" ", "\n", "\t"}

\* the UTF-8 length of a character; U+xxxx names a CJK character
Utf8Len(c) == IF c \in {"U+4E2D", "U+3002", "U+FF01", "U+FF1F", "U+FF0C", "U+FF1B", "U+FF1A"} THEN 3 ELSE 1

\* str::len: the length in bytes (every character takes 1 or 3)
ByteLen(s) ==
    Cardinality({i \in 1 .. Len(s) : Utf8Len(s[i]) = 1})
    + 3 * Cardinality({i \in 1 .. Len(s) : Utf8Len(s[i]) = 3})

\* str::trim_start, str::trim_end, str::trim
trim_start(s) ==
    IF \A i \in 1 .. Len(s) : IsWhitespace(s[i]) THEN <<>>
    ELSE LET first == CHOOSE i \in 1 .. Len(s) :
                          ~IsWhitespace(s[i]) /\ \A j \in 1 .. (i - 1) : IsWhitespace(s[j])
         IN SubSeq(s, first, Len(s))

trim_end(s) ==
    IF \A i \in 1 .. Len(s) : IsWhitespace(s[i]) THEN <<>>
    ELSE LET last == CHOOSE i \in 1 .. Len(s) :
                         ~IsWhitespace(s[i]) /\ \A j \in (i + 1) .. Len(s) : IsWhitespace(s[j])
         IN SubSeq(s, 1, last)

\* the mutant of trim that removes nothing
trim_nothing(s) == s

trim(s) == trim_end(trim_start(s))

\* [String]::join(sep)
RECURSIVE join(_, _)
join(strs, sep) ==
    IF strs = <<>> THEN <<>>
    ELSE IF Len(strs) = 1 THEN Head(strs)
    ELSE Head(strs) \o sep \o join(Tail(strs), sep)

\* str::repeat(n)
RECURSIVE repeat(_, _)
repeat(s, n) == IF n = 0 THEN <<>> ELSE s \o repeat(s, n - 1)

\* an id no node of this process carries (a stale or foreign Uuid)
ForeignIds == {0}

----------------------------------------------------------------------------
(* The components a specification does not exercise stay as they are at start *)

Threads == {"t1", "t2"}

\* BPE_CACHE is empty and unlocked, no thread is in count_tokens
TokIdle ==
    /\ cache = <<>>
    /\ poisoned = FALSE
    /\ lock = None
    /\ th = [t \in Threads |-> [pc |-> "idle", text |-> <<>>, model |-> <<>>, key |-> <<>>, bpe |-> None]]
    /\ built = <<>>
    /\ calls = {}
    /\ ncalls = 0

\* no FAQChunker exists
FaqIdle ==
    /\ fcfg = <<>>
    /\ faq = <<>>
    /\ fpc = "idle"
    /\ groups = <<>>

----------------------------------------------------------------------------
(* Node: tree_structrue/mod.rs *)

NoRelationships ==
    [Parent |-> <<>>, Child |-> <<>>, Previous |-> <<>>, Next |-> <<>>, Root |-> <<>>]

new_root(id, document_id, file_name) ==
    [id |-> id, kind |-> "Root", title |-> None, text |-> <<>>, embedding |-> None,
     document_id |-> document_id,
     relationships |-> [NoRelationships EXCEPT !.Root = <<id>>],
     metadata |-> [document_id |-> document_id, hierarchy |-> <<RootLabel>>,
                   node_type |-> "Root", chunk_size |-> None, file_name |-> file_name,
                   image_alt |-> None, image_path |-> None, image_id |-> None]]

new_intermediate(id, parent_id, title, hierarchy, document_id) ==
    [id |-> id, kind |-> "Intermediate", title |-> title, text |-> <<>>,
     embedding |-> None, document_id |-> document_id,
     relationships |-> [NoRelationships EXCEPT !.Parent = <<parent_id>>],
     metadata |-> [document_id |-> document_id, hierarchy |-> hierarchy,
                   node_type |-> "Intermediate", chunk_size |-> None, file_name |-> None,
                   image_alt |-> None, image_path |-> None, image_id |-> None]]

\* format!("chunk_{}_{}", chunk_index, chunk_size)
ChunkLabel(chunk_index, chunk_size) ==
    <<"c", "h", "u", "n", "k", "_">> \o Digits(chunk_index) \o <<"_">> \o Digits(chunk_size)

\* the mutant of new_leaf that does not push the chunk label on the hierarchy
new_leaf_unlabelled(id, pid, text, chunk_size, chunk_index, hierarchy, document_id, image_alt, image_path, image_id, file_name) ==
    [id |-> id, kind |-> "Leaf", title |-> None, text |-> text, embedding |-> None,
     document_id |-> document_id,
     relationships |-> [NoRelationships EXCEPT !.Parent = <<pid>>],
     metadata |-> [document_id |-> document_id, hierarchy |-> hierarchy,
                   node_type |-> "Leaf", chunk_size |-> Some(chunk_size),
                   file_name |-> file_name, image_alt |-> image_alt,
                   image_path |-> image_path, image_id |-> image_id]]

\* the mutant of new_leaf that labels the chunk by the id of the node
new_leaf_labelled_by_id(id, pid, text, chunk_size, chunk_index, hierarchy, document_id, image_alt, image_path, image_id, file_name) ==
    [id |-> id, kind |-> "Leaf", title |-> None, text |-> text, embedding |-> None,
     document_id |-> document_id,
     relationships |-> [NoRelationships EXCEPT !.Parent = <<pid>>],
     metadata |-> [document_id |-> document_id,
                   hierarchy |-> Append(hierarchy, ChunkLabel(id, chunk_size)),
                   node_type |-> "Leaf", chunk_size |-> Some(chunk_size),
                   file_name |-> file_name, image_alt |-> image_alt,
                   image_path |-> image_path, image_id |-> image_id]]

new_leaf(id, pid, text, chunk_size, chunk_index, hierarchy, document_id, image_alt, image_path, image_id, file_name) ==
    [id |-> id, kind |-> "Leaf", title |-> None, text |-> text, embedding |-> None,
     document_id |-> document_id,
     relationships |-> [NoRelationships EXCEPT !.Parent = <<pid>>],
     metadata |-> [document_id |-> document_id,
                   hierarchy |-> Append(hierarchy, ChunkLabel(chunk_index, chunk_size)),
                   node_type |-> "Leaf", chunk_size |-> Some(chunk_size),
                   file_name |-> file_name, image_alt |-> image_alt,
                   image_path |-> image_path, image_id |-> image_id]]

parent_id(node) == node.relationships.Parent

children(node) == node.relationships.Child

prev_id(node) == node.relationships.Previous

next_id(node) == node.relationships.Next

set_previous(node, prev) == [node EXCEPT !.relationships.Previous = prev]

set_next(node, next) == [node EXCEPT !.relationships.Next = next]

----------------------------------------------------------------------------
(* NodeTree: tree_structrue/mod.rs *)

NodeTree_new(root) == [nodes |-> (root.id :> root), root |-> root.id]

\* the mutant of add_node that links and inserts before it looks the parent up
add_node_unchecked(nodes, child_node) ==
    [nodes |-> (child_node.id :> child_node) @@ nodes, result |-> "Ok"]

\* the mutant of add_node that forgets to set the Next link of the former last child
add_node_no_next(nodes, child_node) ==
    IF parent_id(child_node) = None
    THEN [nodes |-> nodes, result |-> "Node must have a parent"]
    ELSE LET pid == Head(parent_id(child_node)) IN
         IF pid \notin DOMAIN nodes
         THEN [nodes |-> nodes, result |-> "Parent node not found"]
         ELSE LET pushed == [nodes EXCEPT ![pid].relationships.Child =
                                              Append(@, child_node.id)]
                  kids == children(pushed[pid])
                  child == IF Len(kids) >= 2
                           THEN set_previous(child_node, Some(kids[Len(kids) - 1]))
                           ELSE child_node
              IN [nodes |-> (child_node.id :> child) @@ pushed, result |-> "Ok"]

\* add_node: the Result and the node map after the call
add_node(nodes, child_node) ==
    IF parent_id(child_node) = None
    THEN [nodes |-> nodes, result |-> "Node must have a parent"]
    ELSE LET pid == Head(parent_id(child_node)) IN
         IF pid \notin DOMAIN nodes
         THEN [nodes |-> nodes, result |-> "Parent node not found"]
         ELSE LET pushed == [nodes EXCEPT ![pid].relationships.Child =
                                              Append(@, child_node.id)]
                  kids == children(pushed[pid])
                  hasLast == Len(kids) >= 2
                  last_child_id == kids[Len(kids) - 1]
                  linked == IF hasLast /\ last_child_id \in DOMAIN pushed
                            THEN [pushed EXCEPT ![last_child_id] =
                                                   set_next(@, Some(child_node.id))]
                            ELSE pushed
                  child == IF hasLast
                           THEN set_previous(child_node, Some(last_child_id))
                           ELSE child_node
              IN [nodes |-> (child_node.id :> child) @@ linked, result |-> "Ok"]

\* the while loop of get_ancestors: the nodes in walk order, and whether the loop
\* exited within fuel iterations (a walk over n nodes that takes more than n
\* iterations is in a cycle and never exits)
RECURSIVE ancestors_walk(_, _, _)
ancestors_walk(nodes, node_id, fuel) ==
    IF node_id \notin DOMAIN nodes THEN [path |-> <<>>, done |-> TRUE]
    ELSE IF parent_id(nodes[node_id]) = None THEN [path |-> <<node_id>>, done |-> TRUE]
    ELSE IF fuel = 0 THEN [path |-> <<node_id>>, done |-> FALSE]
    ELSE LET rest == ancestors_walk(nodes, Head(parent_id(nodes[node_id])), fuel - 1)
         IN [path |-> <<node_id>> \o rest.path, done |-> rest.done]

\* the mutant of get_ancestors that forgets path.reverse()
get_ancestors_unreversed(nodes, node_id) ==
    ancestors_walk(nodes, node_id, Cardinality(DOMAIN nodes))

get_ancestors(nodes, node_id) ==
    LET w == ancestors_walk(nodes, node_id, Cardinality(DOMAIN nodes))
    IN [path |-> Reverse(w.path), done |-> w.done]

----------------------------------------------------------------------------
(* The tree API driven by a caller: nodes are constructed, then added *)

DocId == <<"d", "1">>

TitleT == <<"T">>

TreeInit ==
    /\ tree = NodeTree_new(new_root(1, DocId, None))
    /\ nextId = 2
    /\ pool = {}
    /\ op = "new"
    /\ arg = None
    /\ result = "Ok"
    /\ path = [path |-> <<>>, done |-> TRUE]
    /\ md = <<>> /\ open = <<>> /\ pc = "idle" /\ nevents = 0 /\ created = <<>>
    /\ input = <<>> /\ max_tokens = 0 /\ ck = <<>> /\ cpc = "idle" /\ hards = <<>>
    /\ TokIdle
    /\ FaqIdle

CanConstruct == nextId <= MaxNodes /\ Cardinality(pool) < MaxPool

\* the ids a caller can name as a parent: every id generated so far, or a foreign one
KnownIds == (1 .. (nextId - 1)) \cup ForeignIds

Constructed(node) ==
    /\ pool' = pool \cup {node}
    /\ nextId' = nextId + 1
    /\ op' = "construct"
    /\ arg' = None
    /\ result' = "Ok"
    /\ UNCHANGED <<tree, path>>
    /\ UNCHANGED mdVars
    /\ UNCHANGED <<ckVars, tokVars, faqVars>>

NewRoot == CanConstruct /\ Constructed(new_root(nextId, DocId, None))

NewIntermediate ==
    /\ CanConstruct
    /\ \E pid \in KnownIds :
          Constructed(new_intermediate(nextId, pid, Some(TitleT),
                                       <<RootLabel, TitleT>>, DocId))

NewLeaf ==
    /\ CanConstruct
    /\ \E pid \in KnownIds :
          Constructed(new_leaf(nextId, pid, TitleT, Len(TitleT), 0, <<RootLabel>>,
                               DocId, None, None, None, None))

\* tree.add_node(node): the node is moved into the call
AddNode ==
    \E node \in pool :
        LET r == add_node(tree.nodes, node) IN
        /\ tree' = [tree EXCEPT !.nodes = r.nodes]
        /\ pool' = pool \ {node}
        /\ op' = "add_node"
        /\ arg' = Some(node)
        /\ result' = r.result
        /\ UNCHANGED <<nextId, path>>
        /\ UNCHANGED mdVars
        /\ UNCHANGED <<ckVars, tokVars, faqVars>>
    /\ UNCHANGED <<ckVars, tokVars, faqVars>>

\* tree.get_ancestors(node_id)
GetAncestors ==
    \E node_id \in KnownIds :
        LET r == get_ancestors(tree.nodes, node_id) IN
        /\ path' = r
        /\ op' = "get_ancestors"
        /\ arg' = None
        /\ result' = "Ok"
        /\ UNCHANGED <<tree, nextId, pool>>
        /\ UNCHANGED mdVars
        /\ UNCHANGED <<ckVars, tokVars, faqVars>>
    /\ UNCHANGED <<ckVars, tokVars, faqVars>>

\* the mutant of set_leaf_embedding that fills an embedding only once
set_leaf_embedding_once(nodes, leaf_id, embedding) ==
    IF leaf_id \in DOMAIN nodes /\ nodes[leaf_id].kind = "Leaf"
    THEN [nodes |-> IF nodes[leaf_id].embedding = None
                    THEN [nodes EXCEPT ![leaf_id].embedding = Some(embedding)]
                    ELSE nodes,
          result |-> "Ok"]
    ELSE [nodes |-> nodes, result |-> "Leaf node not found"]

\* set_leaf_embedding(leaf_id, embedding): the nodes after it and its Result
set_leaf_embedding(nodes, leaf_id, embedding) ==
    IF leaf_id \in DOMAIN nodes /\ nodes[leaf_id].kind = "Leaf"
    THEN [nodes |-> [nodes EXCEPT ![leaf_id].embedding = Some(embedding)], result |-> "Ok"]
    ELSE [nodes |-> nodes, result |-> "Leaf node not found"]

\* the embeddings a caller stores
Embeddings == {<<1>>, <<2>>}

\* the embedding of the node leaf_id before a call, None when there is none
EmbeddingOf(nodes, leaf_id) ==
    IF leaf_id \in DOMAIN nodes THEN nodes[leaf_id].embedding ELSE None

\* tree.set_leaf_embedding(leaf_id, embedding); arg records the arguments and
\* the embedding the call found
SetLeafEmbedding ==
    \E leaf_id \in KnownIds, embedding \in Embeddings :
        LET r == set_leaf_embedding(tree.nodes, leaf_id, embedding) IN
        /\ tree' = [tree EXCEPT !.nodes = r.nodes]
        /\ op' = "set_leaf_embedding"
        /\ arg' = Some([leaf_id |-> leaf_id, embedding |-> embedding,
                        found |-> EmbeddingOf(tree.nodes, leaf_id)])
        /\ result' = r.result
        /\ UNCHANGED <<nextId, pool, path>>
        /\ UNCHANGED mdVars
        /\ UNCHANGED <<ckVars, tokVars, faqVars>>

TreeNext == NewRoot \/ NewIntermediate \/ NewLeaf \/ AddNode \/ GetAncestors

Spec == TreeInit /\ [][TreeNext]_vars

\* the calls that change a tree: add_node and set_leaf_embedding
AnyRootNext == NewRoot \/ NewIntermediate \/ NewLeaf \/ AddNode \/ SetLeafEmbedding

\* the nodes a caller can construct first and hand to NodeTree::new, which takes
\* any Node
FirstNodes ==
    {new_root(1, DocId, None)}
    \cup {new_intermediate(1, pid, Some(TitleT), <<RootLabel, TitleT>>, DocId) : pid \in ForeignIds}
    \cup {new_leaf(1, pid, TitleT, Len(TitleT), 0, <<RootLabel>>, DocId, None, None, None, None) :
              pid \in ForeignIds}

\* NodeTree::new(node) for a node of any variant
AnyRootInit ==
    /\ tree \in {NodeTree_new(node) : node \in FirstNodes}
    /\ nextId = 2
    /\ pool = {}
    /\ op = "new"
    /\ arg = None
    /\ result = "Ok"
    /\ path = [path |-> <<>>, done |-> TRUE]
    /\ md = <<>> /\ open = <<>> /\ pc = "idle" /\ nevents = 0 /\ created = <<>>
    /\ input = <<>> /\ max_tokens = 0 /\ ck = <<>> /\ cpc = "idle" /\ hards = <<>>
    /\ TokIdle
    /\ FaqIdle

SpecAnyRoot == AnyRootInit /\ [][AnyRootNext]_vars

\* the text of the leaf with the given id
LeafText(id) == <<"t">> \o Digits(id)

\* tree.add_node(Node::new_leaf(pid, ...)) or
\* tree.add_node(Node::new_intermediate(pid, ...)) under a node of the tree
Grow ==
    /\ nextId <= MaxGrown + 1
    /\ \E pid \in DOMAIN tree.nodes :
        \E node \in {new_leaf(nextId, pid, LeafText(nextId), ByteLen(LeafText(nextId)), 0,
                              <<RootLabel>>, DocId, None, None, None, None),
                     new_intermediate(nextId, pid, Some(TitleT), <<RootLabel, TitleT>>,
                                      DocId)} :
            LET r == add_node(tree.nodes, node) IN
            /\ tree' = [tree EXCEPT !.nodes = r.nodes]
            /\ nextId' = nextId + 1
            /\ op' = "add_node"
            /\ arg' = Some(node)
            /\ result' = r.result
            /\ UNCHANGED <<pool, path>>
            /\ UNCHANGED mdVars
            /\ UNCHANGED <<ckVars, tokVars, faqVars>>

\* the mutant of Pending that takes every leaf
Pending_all(nodes) == {n \in DOMAIN nodes : nodes[n].kind = "Leaf"}

\* the leaves save_node_tree collects: leaf_nodes() with embedding.is_none()
Pending(nodes) ==
    {n \in DOMAIN nodes : nodes[n].kind = "Leaf" /\ nodes[n].embedding = None}

\* the orders in which HashMap::values() can yield the nodes of S
Orders(S) ==
    {o \in [1 .. Cardinality(S) -> S] : \A i, j \in DOMAIN o : o[i] = o[j] => i = j}

\* the square of the L2 norm of a vector
RECURSIVE SumOfSquares(_)
SumOfSquares(v) == IF v = <<>> THEN 0 ELSE Head(v) * Head(v) + SumOfSquares(Tail(v))

\* (norm - 1.0).abs() < 1e-6
is_normalized(v) == SumOfSquares(v) = 1

\* the vectors embed answers with: two of norm 1 and one that is not normalized
Answers == {<<1>>, <<-1>>, <<2>>}

\* what embedding_client.embed(texts) can answer for n texts: an error (None), a
\* list of n vectors, or a list that is one vector short or one too long
Responses(n) ==
    {None} \cup {Some(l) : l \in [1 .. n -> Answers]}
           \cup {Some([i \in 1 .. m |-> <<1>>]) : m \in {n - 1, n + 1}}

\* for (i, embedding) in embeddings { set_leaf_embedding(leaf_ids[i], embedding)? }:
\* leaf_ids[i] panics past the end of leaf_ids
RECURSIVE store_embeddings(_, _, _, _)
store_embeddings(nodes, leaf_ids, embeddings, i) ==
    IF i > Len(embeddings) THEN [nodes |-> nodes, result |-> "Ok"]
    ELSE IF i > Len(leaf_ids) THEN [nodes |-> nodes, result |-> "panic"]
    ELSE LET r == set_leaf_embedding(nodes, leaf_ids[i], embeddings[i]) IN
         IF r.result # "Ok" THEN r
         ELSE store_embeddings(r.nodes, leaf_ids, embeddings, i + 1)

\* the records of the leaves with an embedding are built, each asserted to be
\* normalized, and store.upsert_vectors(records) succeeds or not
upsert_records(nodes, stored) ==
    IF \E n \in DOMAIN nodes :
           /\ nodes[n].kind = "Leaf"
           /\ nodes[n].embedding # None
           /\ ~is_normalized(Head(nodes[n].embedding))
    THEN "panic"
    ELSE IF stored THEN "Ok" ELSE "upsert failed"

\* save_node_tree(node_tree, store, embedding_client) for the order leaf_ids in
\* which the pending leaves were met, the answer of embed and the outcome of the
\* upsert: the nodes after it and its result
save_node_tree(nodes, leaf_ids, response, stored) ==
    IF leaf_ids = <<>> THEN [nodes |-> nodes, result |-> upsert_records(nodes, stored)]
    ELSE IF response = None THEN [nodes |-> nodes, result |-> "embed failed"]
    ELSE IF \E i \in 1 .. Len(Head(response)) : ~is_normalized(Head(response)[i])
    THEN [nodes |-> nodes, result |-> "panic"]
    ELSE LET r == store_embeddings(nodes, leaf_ids, Head(response), 1) IN
         IF r.result # "Ok" THEN r
         ELSE [nodes |-> r.nodes, result |-> upsert_records(r.nodes, stored)]

\* save_node_tree(&mut tree, store, embedding_client); arg records the texts
\* sent to embed, the leaves they came from and the answer
SaveNodeTree ==
    \E leaf_ids \in Orders(Pending(tree.nodes)), stored \in BOOLEAN :
        \E response \in (IF leaf_ids = <<>> THEN {None} ELSE Responses(Len(leaf_ids))) :
            LET r == save_node_tree(tree.nodes, leaf_ids, response, stored) IN
            /\ tree' = [tree EXCEPT !.nodes = r.nodes]
            /\ op' = "save_node_tree"
            /\ arg' = Some([texts |-> [i \in 1 .. Len(leaf_ids) |-> tree.nodes[leaf_ids[i]].text],
                            leaf_ids |-> leaf_ids,
                            response |-> response])
            /\ result' = r.result
            /\ UNCHANGED <<nextId, pool, path>>
            /\ UNCHANGED mdVars
            /\ UNCHANGED <<ckVars, tokVars, faqVars>>

EmbedNext == Grow \/ SetLeafEmbedding \/ SaveNodeTree

\* a tree is grown and embeddings are stored in it
SpecEmbed == TreeInit /\ [][EmbedNext]_vars

\* tree.add_node(node.clone()): Node derives Clone, so the caller keeps the node
\* and can hand a copy of it to add_node again.  The Child list the call
\* appends to is capped at MaxNodes entries
AddNodeClone ==
    \E node \in pool :
        LET r == add_node(tree.nodes, node) IN
        /\ \A pid \in DOMAIN tree.nodes :
              parent_id(node) = Some(pid) => Len(children(tree.nodes[pid])) < MaxNodes
        /\ tree' = [tree EXCEPT !.nodes = r.nodes]
        /\ op' = "add_node"
        /\ arg' = Some(node)
        /\ result' = r.result
        /\ UNCHANGED <<nextId, pool, path>>
        /\ UNCHANGED mdVars
        /\ UNCHANGED <<ckVars, tokVars, faqVars>>

ReAddNext == NewRoot \/ NewIntermediate \/ NewLeaf \/ AddNode \/ AddNodeClone

\* the tree API driven by a caller that also adds copies of its nodes
SpecReAdd == TreeInit /\ [][ReAddNext]_vars

----------------------------------------------------------------------------
(* Claims about the document tree *)

Last(s) == s[Len(s)]

\* the nodes met by following link (next_id or prev_id) from node id, at most fuel times
RECURSIVE FollowNext(_, _, _)
FollowNext(nodes, id, fuel) ==
    IF id \notin DOMAIN nodes \/ fuel = 0 THEN <<>>
    ELSE IF next_id(nodes[id]) = None THEN <<id>>
    ELSE <<id>> \o FollowNext(nodes, Head(next_id(nodes[id])), fuel - 1)

RECURSIVE FollowPrevious(_, _, _)
FollowPrevious(nodes, id, fuel) ==
    IF id \notin DOMAIN nodes \/ fuel = 0 THEN <<>>
    ELSE IF prev_id(nodes[id]) = None THEN <<id>>
    ELSE <<id>> \o FollowPrevious(nodes, Head(prev_id(nodes[id])), fuel - 1)

\* C1: for every parent, the Child list c0..c(N-1) is a doubly linked chain:
\* Next(c_i) = c_(i+1), Previous(c_(i+1)) = c_i, c0 has no Previous, c(N-1) no
\* Next; walking Next from c0 gives the Child list, walking Previous from
\* c(N-1) gives it reversed.
C1_SiblingChain ==
    \A p \in DOMAIN tree.nodes :
        LET c == children(tree.nodes[p])
            N == Len(c)
        IN N > 0 =>
            /\ \A i \in 1 .. N : c[i] \in DOMAIN tree.nodes
            /\ \A i \in 1 .. (N - 1) :
                  /\ next_id(tree.nodes[c[i]]) = Some(c[i + 1])
                  /\ prev_id(tree.nodes[c[i + 1]]) = Some(c[i])
            /\ prev_id(tree.nodes[c[1]]) = None
            /\ next_id(tree.nodes[c[N]]) = None
            /\ FollowNext(tree.nodes, c[1], N + 1) = c
            /\ FollowPrevious(tree.nodes, c[N], N + 1) = Reverse(c)

\* a parent with three children added one after the other
C1_Witness ==
    /\ op = "add_node" /\ result = "Ok"
    /\ \E p \in DOMAIN tree.nodes : Len(children(tree.nodes[p])) >= 3

\* C2: for every non-root node n of the tree, get_ancestors(n) terminates, its
\* first element is the root, its last element is n, and each element is the
\* parent of the next.
C2_Ancestors ==
    \A n \in DOMAIN tree.nodes \ {tree.root} :
        LET r == get_ancestors(tree.nodes, n) IN
        /\ r.done
        /\ r.path # <<>>
        /\ Head(r.path) = tree.root
        /\ Last(r.path) = n
        /\ \A i \in 1 .. (Len(r.path) - 1) :
              parent_id(tree.nodes[r.path[i + 1]]) = Some(r.path[i])

\* get_ancestors has returned root, child, grandchild
C2_Witness ==
    /\ op = "get_ancestors"
    /\ Len(path.path) >= 3
    /\ Head(path.path) = tree.root

\* C3: an add_node call on a node without Parent relationship returns the
\* "missing parent" error, one whose parent id is not in the tree returns the
\* "parent not found" error, and in both cases the tree is what it was.
C3_AddNodeErrors ==
    [][op' = "add_node" =>
        LET node == Head(arg') IN
        /\ parent_id(node) = None =>
              result' = "Node must have a parent" /\ tree' = tree
        /\ (parent_id(node) # None /\ Head(parent_id(node)) \notin DOMAIN tree.nodes) =>
              result' = "Parent node not found" /\ tree' = tree
        /\ result' # "Ok" => tree' = tree]_vars

\* a failed add_node on a tree that already has children
C3_Witness ==
    /\ op = "add_node"
    /\ result = "Parent node not found"
    /\ Cardinality(DOMAIN tree.nodes) >= 3

----------------------------------------------------------------------------
(* MarkdownParser::parse: tree_structrue/markdown_bulid.rs *)

FileName == Some(<<"f">>)

\* the locals of parse before the first event (lines 21-58)
MdLocals(root_id) ==
    [heading_stack |-> <<[id |-> root_id, hier |-> <<RootLabel>>]>>,
     current_parent_id |-> root_id,
     current_hierarchy |-> <<RootLabel>>,
     in_code_block |-> FALSE,
     in_table |-> FALSE,
     in_image |-> FALSE,
     table_header |-> None,
     table_buffer |-> <<>>,
     current_row |-> <<>>,
     code_buffer |-> <<>>,
     paragraph_buffer |-> <<>>,
     image_alt |-> <<>>,
     image_path |-> <<>>,
     pending_heading |-> None,
     chunk_index |-> 0]

\* one event of pulldown_cmark: its kind, the level of a heading, and the text of
\* a Text event, the title of an image or the tag of another Start event
Ev(kind, level, text) == [kind |-> kind, level |-> level, text |-> text]

\* Parser::new_ext(content, Options::all()) for four documents:
\*   headings   "# T\n## S\npara text": two headings and a paragraph
\*   image      "a ![x](p/i) b": a paragraph with an image between two texts
\*   tight_list "- x\n# H": a tight list item, whose text is in no paragraph, and
\*              a heading after it (the Start and End of the list itself fall in
\*              the `_ => {}` arms and are left out)
\*   table      "|a|\n|-|": a table of one header cell
Doc ==
    [headings |->
       <<Ev("StartHeading", 1, <<>>), Ev("Text", 0, <<"T">>), Ev("EndHeading", 0, <<>>),
         Ev("StartHeading", 2, <<>>), Ev("Text", 0, <<"S">>), Ev("EndHeading", 0, <<>>),
         Ev("StartOther", 0, <<"Paragraph">>),
         Ev("Text", 0, <<"p", "a", "r", "a", " ", "t", "e", "x", "t">>),
         Ev("EndParagraph", 0, <<>>)>>,
     image |->
       <<Ev("StartOther", 0, <<"Paragraph">>), Ev("Text", 0, <<"a", " ">>),
         Ev("StartImage", 0, <<>>), Ev("Text", 0, <<"x">>), Ev("EndImage", 0, <<>>),
         Ev("Text", 0, <<" ", "b">>), Ev("EndParagraph", 0, <<>>)>>,
     tight_list |->
       <<Ev("StartOther", 0, <<"Item">>), Ev("Text", 0, <<"x">>), Ev("EndOther", 0, <<>>),
         Ev("StartHeading", 1, <<>>), Ev("Text", 0, <<"H">>), Ev("EndHeading", 0, <<>>)>>,
     table |->
       <<Ev("StartTable", 0, <<>>), Ev("StartOther", 0, <<"TableHead">>),
         Ev("StartOther", 0, <<"TableCell">>), Ev("Text", 0, <<"a">>),
         Ev("EndOther", 0, <<>>), Ev("EndTableHead", 0, <<>>), Ev("EndTable", 0, <<>>)>>]

\* the documents parse is given: input holds the events of a fixed document, and
\* <<>> stands for any document, whose events are drawn one by one
Documents == {<<>>, Doc.headings, Doc.image, Doc.tight_list, Doc.table}

MdInit ==
    /\ tree = NodeTree_new(new_root(1, DocId, FileName))
    /\ nextId = 2
    /\ pool = {}
    /\ op = "parse"
    /\ arg = None
    /\ result = "Ok"
    /\ path = [path |-> <<>>, done |-> TRUE]
    /\ md = MdLocals(1)
    /\ open = <<>>
    /\ pc = "parsing"
    /\ nevents = 0
    /\ created = <<>>
    /\ input \in Documents /\ max_tokens = 0 /\ ck = <<>> /\ cpc = "idle" /\ hards = <<>>
    /\ TokIdle
    /\ FaqIdle

\* the texts of Text events: a word and a blank
Texts == {<<"a">>, <<" ">>}

\* the text of an inline code span: one ideograph, three bytes long
CodeText == <<"U+4E2D">>

ImageUrl == <<"p", "/", "i">>

ImageTitles == {<<>>}

Levels == 1 .. MaxLevel

Top(stack) == IF stack = <<>> THEN "Document" ELSE stack[Len(stack)]

Pop(stack) == SubSeq(stack, 1, Len(stack) - 1)

\* the containers in which pulldown_cmark produces inline events
InlineContext == Top(open) \in {"Heading", "Paragraph", "TableCell", "Item"}

\* the next event of the document is e
Yields(e) == input = <<>> \/ (nevents < Len(input) /\ input[nevents + 1] = e)

\* the texts the next Text event can carry
NextTexts ==
    IF input = <<>> THEN Texts
    ELSE IF nevents < Len(input) THEN {input[nevents + 1].text}
    ELSE {}

\* the parser produces one more event
Event ==
    /\ pc = "parsing"
    /\ nevents < MaxEvents
    /\ nevents' = nevents + 1
    /\ UNCHANGED <<ckVars, tokVars, faqVars>>

\* a handler that adds no node
Continue(md2) ==
    /\ md' = md2
    /\ UNCHANGED <<tree, nextId, pc, created>>
    /\ UNCHANGED <<pool, op, arg, result, path>>

\* tree.add_node(node)?, after which the handler leaves the locals md2; an Err
\* makes parse return.  kind and level go to the history
AddThen(node, md2, kind, level) ==
    LET r == add_node(tree.nodes, node) IN
    /\ Cardinality(DOMAIN tree.nodes) < MaxMdNodes
    /\ nextId' = nextId + 1
    /\ tree' = [tree EXCEPT !.nodes = r.nodes]
    /\ result' = r.result
    /\ IF r.result = "Ok"
       THEN /\ md' = md2
            /\ pc' = pc
            /\ created' = Append(created, [id |-> node.id, kind |-> kind, level |-> level])
       ELSE /\ md' = md
            /\ pc' = "error"
            /\ created' = created
    /\ UNCHANGED <<pool, op, arg, path>>

\* the mutant of PopTo that pops nothing
PopTo_nothing(stack, level) == stack

\* while heading_stack.len() > level { heading_stack.pop(); }
PopTo(stack, level) == IF Len(stack) > level THEN SubSeq(stack, 1, level) ELSE stack

\* the mutant of LastOrRoot that always answers the root
LastOrRoot_root(stack) == [id |-> tree.root, hier |-> <<RootLabel>>]

\* heading_stack.last().cloned().unwrap_or((root_id, vec!["Root"]))
LastOrRoot(stack) ==
    IF stack = <<>> THEN [id |-> tree.root, hier |-> <<RootLabel>>] ELSE stack[Len(stack)]

\* Event::Start(Tag::Heading { level, .. })
StartHeading ==
    /\ Event
    /\ open = <<>>
    /\ open' = <<"Heading">>
    /\ \E level \in Levels :
        LET stack == PopTo(md.heading_stack, level)
            parent == LastOrRoot(stack)
        IN Yields(Ev("StartHeading", level, <<>>)) /\
           Continue([md EXCEPT !.heading_stack = stack,
                               !.pending_heading =
                                   Some([level |-> level, text |-> <<>>,
                                         _parent_id |-> parent.id,
                                         _parent_hierarchy |-> parent.hier])])

\* Event::Start(Tag::CodeBlock(_))
StartCodeBlock ==
    /\ Event
    /\ Yields(Ev("StartCodeBlock", 0, <<>>))
    /\ open = <<>>
    /\ open' = <<"CodeBlock">>
    /\ Continue([md EXCEPT !.in_code_block = TRUE, !.code_buffer = <<>>])

\* Event::Start(Tag::Table(_))
StartTable ==
    /\ Event
    /\ Yields(Ev("StartTable", 0, <<>>))
    /\ open = <<>>
    /\ open' = <<"Table">>
    /\ Continue([md EXCEPT !.in_table = TRUE, !.table_header = None,
                           !.table_buffer = <<>>, !.current_row = <<>>])

\* Event::Start(Tag::Image { dest_url, title, .. })
StartImage ==
    /\ Event
    /\ InlineContext
    /\ open' = Append(open, "Image")
    /\ \E title \in ImageTitles :
        Yields(Ev("StartImage", 0, title)) /\
        Continue([md EXCEPT !.in_image = TRUE, !.image_alt = title,
                            !.image_path = ImageUrl])

\* Event::Start of any other tag (the `_ => {}` arm): a paragraph, a list item,
\* the head, a row or a cell of a table
StartOther ==
    /\ Event
    /\ \/ open = <<>> /\ open' \in {<<"Paragraph">>, <<"Item">>}
       \/ Top(open) = "Table" /\ open' = Append(open, "TableHead")
       \/ Top(open) = "TableBody" /\ open' = Append(open, "TableRow")
       \/ Top(open) \in {"TableHead", "TableRow"} /\ open' = Append(open, "TableCell")
    /\ Yields(Ev("StartOther", 0, <<Top(open')>>))
    /\ Continue(md)

\* the mutant of LeafOf that names a parent the tree does not hold
LeafOf_orphan(text, hierarchy, alt, img_path, img_id) ==
    new_leaf(nextId, 0, text, ByteLen(text), md.chunk_index,
             hierarchy, DocId, alt, img_path, img_id, FileName)

\* the mutant of LeafOf that passes chunk index 0 for every leaf
LeafOf_index_zero(text, hierarchy, alt, img_path, img_id) ==
    new_leaf(nextId, md.current_parent_id, text, ByteLen(text), 0,
             hierarchy, DocId, alt, img_path, img_id, FileName)

\* the mutant of LeafOf that passes the number of characters as chunk_size
LeafOf_chars(text, hierarchy, alt, img_path, img_id) ==
    new_leaf(nextId, md.current_parent_id, text, Len(text), md.chunk_index,
             hierarchy, DocId, alt, img_path, img_id, FileName)

\* Node::new_leaf(current_parent_id, text, text.len(), chunk_index, hierarchy, ...)
LeafOf(text, hierarchy, alt, img_path, img_id) ==
    new_leaf(nextId, md.current_parent_id, text, ByteLen(text), md.chunk_index,
             hierarchy, DocId, alt, img_path, img_id, FileName)

\* TagEnd::Heading
EndHeading ==
    /\ Event
    /\ Yields(Ev("EndHeading", 0, <<>>))
    /\ Top(open) = "Heading"
    /\ open' = Pop(open)
    /\ IF md.pending_heading = None THEN Continue(md)
       ELSE LET heading == Head(md.pending_heading)
                title == trim(heading.text)
                taken == [md EXCEPT !.pending_heading = None]
            IN IF title = <<>> THEN Continue(taken)
               ELSE LET stack == PopTo(md.heading_stack, heading.level)
                        parent == LastOrRoot(stack)
                        new_hier == Append(parent.hier, title)
                        intermediate == new_intermediate(nextId, parent.id, Some(title),
                                                         new_hier, DocId)
                    IN AddThen(intermediate,
                               [taken EXCEPT
                                   !.heading_stack =
                                       Append(stack, [id |-> nextId, hier |-> new_hier]),
                                   !.current_parent_id = nextId,
                                   !.current_hierarchy = new_hier],
                               "heading", heading.level)

\* TagEnd::Paragraph
EndParagraph ==
    /\ Event
    /\ Yields(Ev("EndParagraph", 0, <<>>))
    /\ Top(open) = "Paragraph"
    /\ open' = Pop(open)
    /\ LET text == trim(md.paragraph_buffer) IN
       IF text # <<>>
       THEN AddThen(LeafOf(text, md.current_hierarchy, None, None, None),
                    [md EXCEPT !.chunk_index = @ + 1, !.paragraph_buffer = <<>>],
                    "paragraph", 0)
       ELSE Continue([md EXCEPT !.paragraph_buffer = <<>>])

\* TagEnd::CodeBlock
EndCodeBlock ==
    /\ Event
    /\ Yields(Ev("EndCodeBlock", 0, <<>>))
    /\ Top(open) = "CodeBlock"
    /\ open' = Pop(open)
    /\ IF ~md.in_code_block THEN Continue(md)
       ELSE LET text == trim_end(md.code_buffer)
                closed == [md EXCEPT !.in_code_block = FALSE, !.code_buffer = <<>>]
            IN IF text # <<>>
               THEN AddThen(LeafOf(text, md.current_hierarchy, None, None, None),
                            [closed EXCEPT !.chunk_index = @ + 1], "code", 0)
               ELSE Continue(closed)

\* TagEnd::TableHead
EndTableHead ==
    /\ Event
    /\ Yields(Ev("EndTableHead", 0, <<>>))
    /\ Top(open) = "TableHead"
    /\ open' = Append(Pop(Pop(open)), "TableBody")
    /\ IF md.in_table
       THEN Continue([md EXCEPT !.table_header = Some(md.current_row),
                                !.current_row = <<>>])
       ELSE Continue(md)

\* TagEnd::TableRow
EndTableRow ==
    /\ Event
    /\ Yields(Ev("EndTableRow", 0, <<>>))
    /\ Top(open) = "TableRow"
    /\ open' = Pop(open)
    /\ IF md.in_table /\ md.table_header # None
       THEN Continue([md EXCEPT !.table_buffer = Append(@, md.current_row),
                                !.current_row = <<>>])
       ELSE Continue(md)

\* format!("| {} |\n", cells.join(" | "))
TableLine(cells) == <<"|", " ">> \o join(cells, <<" ", "|", " ">>) \o <<" ", "|", "\n">>

\* format!("| {} |\n", "--- | ".repeat(n).trim_end())
DividerLine(n) ==
    <<"|", " ">> \o trim_end(repeat(<<"-", "-", "-", " ", "|", " ">>, n)) \o <<" ", "|", "\n">>

RECURSIVE TableLines(_)
TableLines(rows) ==
    IF rows = <<>> THEN <<>> ELSE TableLine(Head(rows)) \o TableLines(Tail(rows))

\* the markdown string TagEnd::Table builds from the header and the body rows
TableMarkdown(header, rows) ==
    (IF header # None
     THEN TableLine(Head(header)) \o DividerLine(Len(Head(header)))
     ELSE <<>>) \o TableLines(rows)

\* format!("table_{}", chunk_index)
TableLabel(chunk_index) == <<"t", "a", "b", "l", "e", "_">> \o Digits(chunk_index)

\* format!("img_{}", chunk_index)
ImgLabel(chunk_index) == <<"i", "m", "g", "_">> \o Digits(chunk_index)

\* TagEnd::Table
EndTable ==
    /\ Event
    /\ Yields(Ev("EndTable", 0, <<>>))
    /\ Top(open) = "TableBody"
    /\ open' = Pop(open)
    /\ IF ~md.in_table THEN Continue(md)
       ELSE LET markdown == TableMarkdown(md.table_header, md.table_buffer)
                table_hier == Append(md.current_hierarchy, TableLabel(md.chunk_index))
                closed == [md EXCEPT !.table_header = None, !.table_buffer = <<>>,
                                     !.in_table = FALSE]
            IN IF trim(markdown) # <<>>
               THEN AddThen(LeafOf(markdown, table_hier, None, None, None),
                            [closed EXCEPT !.chunk_index = @ + 1], "table", 0)
               ELSE Continue(closed)

\* image_path.split("/").last().unwrap_or("")
LastSegment(p) ==
    IF \A i \in 1 .. Len(p) : p[i] # "/" THEN p
    ELSE LET slash == CHOOSE i \in 1 .. Len(p) :
                          p[i] = "/" /\ \A j \in (i + 1) .. Len(p) : p[j] # "/"
         IN SubSeq(p, slash + 1, Len(p))

\* format!("![{}]({})", image_alt, image_path)
ImageMarkdown(alt, p) == <<"!", "[">> \o alt \o <<"]", "(">> \o p \o <<")">>

\* TagEnd::Image
EndImage ==
    /\ Event
    /\ Yields(Ev("EndImage", 0, <<>>))
    /\ Top(open) = "Image"
    /\ open' = Pop(open)
    /\ IF ~md.in_image THEN Continue(md)
       ELSE LET markdown == ImageMarkdown(md.image_alt, md.image_path)
                img_hier == Append(md.current_hierarchy, ImgLabel(md.chunk_index))
                image_id == LastSegment(md.image_path)
            IN AddThen(LeafOf(markdown, img_hier,
                              IF md.image_alt = <<>> THEN None ELSE Some(md.image_alt),
                              Some(md.image_path), Some(image_id)),
                       [md EXCEPT !.chunk_index = @ + 1, !.in_image = FALSE,
                                  !.image_alt = <<>>, !.image_path = <<>>,
                                  !.paragraph_buffer = <<>>],
                       "image", 0)

\* Event::End of any other tag (the `_ => {}` arm): a list item, a table cell
EndOther ==
    /\ Event
    /\ Yields(Ev("EndOther", 0, <<>>))
    /\ Top(open) \in {"Item", "TableCell"}
    /\ open' = Pop(open)
    /\ Continue(md)

\* Event::Text(text)
Text ==
    /\ Event
    /\ InlineContext \/ Top(open) \in {"Image", "CodeBlock"}
    /\ open' = open
    /\ \E s \in NextTexts :
        Yields(Ev("Text", 0, s)) /\
        IF md.pending_heading # None
        THEN Continue([md EXCEPT !.pending_heading =
                          Some([Head(md.pending_heading) EXCEPT !.text = @ \o s])])
        ELSE IF md.in_code_block
        THEN Continue([md EXCEPT !.code_buffer = @ \o s \o <<"\n">>])
        ELSE IF md.in_table
        THEN Continue([md EXCEPT !.current_row = Append(@, s)])
        ELSE IF md.in_image
        THEN Continue([md EXCEPT !.image_alt = @ \o s])
        ELSE IF trim(s) # <<>>
        THEN Continue([md EXCEPT !.paragraph_buffer = @ \o s \o <<" ">>])
        ELSE Continue(md)

\* Event::Code(text); U+0060 is the backtick
Code ==
    /\ Event
    /\ Yields(Ev("Code", 0, CodeText))
    /\ InlineContext
    /\ open' = open
    /\ IF md.pending_heading = None /\ ~md.in_code_block
       THEN Continue([md EXCEPT !.paragraph_buffer =
                                    @ \o <<"U+0060">> \o CodeText \o <<"U+0060", " ">>])
       ELSE Continue(md)

\* Event::SoftBreak | Event::HardBreak
Break ==
    /\ Event
    /\ Yields(Ev("Break", 0, <<>>))
    /\ InlineContext
    /\ open' = open
    /\ IF md.paragraph_buffer # <<>> /\ md.pending_heading = None /\ ~md.in_table
       THEN Continue([md EXCEPT !.paragraph_buffer = Append(@, " ")])
       ELSE Continue(md)

\* the event loop is over: the last paragraph is flushed and parse returns Ok(tree)
EndOfInput ==
    /\ pc = "parsing"
    /\ open = <<>>
    /\ input = <<>> \/ nevents = Len(input)
    /\ LET text == trim(md.paragraph_buffer) IN
       IF text # <<>>
       THEN LET r == add_node(tree.nodes,
                              LeafOf(text, md.current_hierarchy, None, None, None))
            IN /\ Cardinality(DOMAIN tree.nodes) < MaxMdNodes
               /\ nextId' = nextId + 1
               /\ tree' = [tree EXCEPT !.nodes = r.nodes]
               /\ result' = r.result
               /\ pc' = IF r.result = "Ok" THEN "done" ELSE "error"
               /\ created' = IF r.result = "Ok"
                             THEN Append(created, [id |-> nextId, kind |-> "flush",
                                                   level |-> 0])
                             ELSE created
       ELSE pc' = "done" /\ UNCHANGED <<tree, nextId, result, created>>
    /\ UNCHANGED <<md, open, nevents, pool, op, arg, path>>
    /\ UNCHANGED <<ckVars, tokVars, faqVars>>

MdNext ==
    \/ StartHeading \/ StartCodeBlock \/ StartTable \/ StartImage \/ StartOther
    \/ EndHeading \/ EndParagraph \/ EndCodeBlock \/ EndTableHead \/ EndTableRow
    \/ EndTable \/ EndImage \/ EndOther
    \/ Text \/ Code \/ Break
    \/ EndOfInput

SpecMd == MdInit /\ [][MdNext]_vars

\* parser.parse(content) is called again with the document it has just parsed:
\* the first tree is kept in arg, and the root of the second gets a new id
ParseAgain ==
    /\ pc = "done"
    /\ op = "parse"
    /\ result = "Ok"
    /\ input # <<>>
    /\ arg' = Some(tree)
    /\ tree' = NodeTree_new(new_root(nextId, DocId, FileName))
    /\ nextId' = nextId + 1
    /\ md' = MdLocals(nextId)
    /\ open' = <<>>
    /\ pc' = "parsing"
    /\ nevents' = 0
    /\ created' = <<>>
    /\ op' = "parse again"
    /\ UNCHANGED <<pool, result, path>>
    /\ UNCHANGED <<ckVars, tokVars, faqVars>>

MdTwiceNext == MdNext \/ ParseAgain

SpecMdTwice == MdInit /\ [][MdTwiceNext]_vars

\* the caller stores an embedding in the tree parse has just returned
EmbedAfterParse == pc = "done" /\ op = "parse" /\ SetLeafEmbedding

MdEmbedNext == MdNext \/ EmbedAfterParse

SpecMdEmbed == MdInit /\ [][MdEmbedNext]_vars

----------------------------------------------------------------------------
(* Claims about the markdown tree builder *)

Max(S) == CHOOSE x \in S : \A y \in S : y <= x

\* the heading nodes parse created, in order
Headings == SelectSeq(created, LAMBDA e : e.kind = "heading")

\* C4: the parent of the node of a heading of level L is the node of the nearest
\* preceding non-empty heading of level < L, or the Root when there is none, and
\* no heading is a descendant of an earlier heading of the same or a deeper level.
C4_HeadingsNestByLevel ==
    \A k \in 1 .. Len(Headings) :
        LET h == Headings[k]
            shallower == {j \in 1 .. (k - 1) : Headings[j].level < h.level}
            expected == IF shallower = {} THEN tree.root ELSE Headings[Max(shallower)].id
            up == get_ancestors(tree.nodes, h.id).path
        IN /\ parent_id(tree.nodes[h.id]) = Some(expected)
           /\ \A j \in 1 .. (k - 1) :
                  Headings[j].level >= h.level =>
                      \A i \in 1 .. Len(up) : up[i] # Headings[j].id

Hierarchy(id) == tree.nodes[id].metadata.hierarchy

ParentHierarchy(id) == Hierarchy(Head(parent_id(tree.nodes[id])))

\* C5 as claimed: the hierarchy of every non-root node is its parent's hierarchy
\* followed by exactly one element: the title of a heading node, or one label
\* chunk_<index>_<size>, table_<n> or img_<n> of a leaf.
C5_OneMoreElement ==
    \A n \in DOMAIN tree.nodes \ {tree.root} :
        LET node == tree.nodes[n]
            h == Hierarchy(n)
        IN /\ Len(h) = Len(ParentHierarchy(n)) + 1
           /\ SubSeq(h, 1, Len(h) - 1) = ParentHierarchy(n)
           /\ node.kind = "Intermediate" => Some(Last(h)) = node.title
           /\ node.kind = "Leaf" =>
                \E i \in 0 .. MaxMdNodes :
                    Last(h) \in {ChunkLabel(i, Head(node.metadata.chunk_size)),
                                 TableLabel(i), ImgLabel(i)}

\* C5 amended: a heading node's hierarchy is its parent's followed by its title; a
\* paragraph or code leaf's is its parent's followed by chunk_<index>_<size>; a
\* table (image) leaf's is its parent's followed by two elements, table_<n>
\* (img_<n>) and then chunk_<n>_<size>.
C5_HierarchyExtendsParent ==
    \A k \in 1 .. Len(created) :
        LET e == created[k]
            node == tree.nodes[e.id]
            h == Hierarchy(e.id)
            ph == ParentHierarchy(e.id)
            size == Head(node.metadata.chunk_size)
        IN /\ e.kind = "heading" => h = ph \o <<Head(node.title)>>
           /\ e.kind \in {"paragraph", "code", "flush"} =>
                \E i \in 0 .. MaxMdNodes : h = ph \o <<ChunkLabel(i, size)>>
           /\ e.kind = "table" =>
                \E i \in 0 .. MaxMdNodes : h = ph \o <<TableLabel(i), ChunkLabel(i, size)>>
           /\ e.kind = "image" =>
                \E i \in 0 .. MaxMdNodes : h = ph \o <<ImgLabel(i), ChunkLabel(i, size)>>

\* an image leaf under a heading, after a paragraph leaf
C5_Witness ==
    /\ \E k \in 1 .. Len(created) :
          /\ created[k].kind = "image"
          /\ tree.nodes[Head(parent_id(tree.nodes[created[k].id]))].kind = "Intermediate"
    /\ \E k \in 1 .. Len(created) : created[k].kind \in {"paragraph", "code"}

----------------------------------------------------------------------------
(* The Tokenizer Service: tiktoken.rs *)

\* the model names of the match arms of normalize_model_name (tiktoken.rs) and of
\* normalize_model (recursive_splitting.rs, which adds the Qwen names)
Name ==
    [gpt_4 |-> <<"g", "p", "t", "-", "4">>,
     gpt_4_turbo |-> <<"g", "p", "t", "-", "4", "-", "t", "u", "r", "b", "o">>,
     gpt_4o |-> <<"g", "p", "t", "-", "4", "o">>,
     gpt_4o_mini |-> <<"g", "p", "t", "-", "4", "o", "-", "m", "i", "n", "i">>,
     gpt_3_5 |-> <<"g", "p", "t", "-", "3", ".", "5">>,
     gpt_3_5_turbo |-> <<"g", "p", "t", "-", "3", ".", "5", "-", "t", "u", "r", "b", "o">>,
     chatgpt |-> <<"c", "h", "a", "t", "g", "p", "t">>,
     text_embedding_3_small |-> <<"t", "e", "x", "t", "-", "e", "m", "b", "e", "d", "d", "i", "n", "g", "-", "3", "-", "s", "m", "a", "l", "l">>,
     embedding_small |-> <<"e", "m", "b", "e", "d", "d", "i", "n", "g", "-", "s", "m", "a", "l", "l">>,
     text_embedding_3_large |-> <<"t", "e", "x", "t", "-", "e", "m", "b", "e", "d", "d", "i", "n", "g", "-", "3", "-", "l", "a", "r", "g", "e">>,
     embedding_large |-> <<"e", "m", "b", "e", "d", "d", "i", "n", "g", "-", "l", "a", "r", "g", "e">>,
     text_embedding_ada_002 |-> <<"t", "e", "x", "t", "-", "e", "m", "b", "e", "d", "d", "i", "n", "g", "-", "a", "d", "a", "-", "0", "0", "2">>,
     ada |-> <<"a", "d", "a">>,
     qwen |-> <<"q", "w", "e", "n">>,
     qwen_max |-> <<"q", "w", "e", "n", "-", "m", "a", "x">>,
     qwen_plus |-> <<"q", "w", "e", "n", "-", "p", "l", "u", "s">>,
     qwen_turbo |-> <<"q", "w", "e", "n", "-", "t", "u", "r", "b", "o">>,
     qwen_7b |-> <<"q", "w", "e", "n", "-", "7", "b">>,
     qwen_14b |-> <<"q", "w", "e", "n", "-", "1", "4", "b">>,
     qwen_72b |-> <<"q", "w", "e", "n", "-", "7", "2", "b">>]

\* char::to_lowercase, on the capitals the model names of this model use
LowerOf(c) == CASE c = "G" -> "g" [] c = "P" -> "p" [] c = "T" -> "t" [] OTHER -> c

\* str::to_lowercase
to_lowercase(s) == [i \in 1 .. Len(s) |-> LowerOf(s[i])]

\* normalize_model_name(model) of tiktoken.rs
normalize_model_name(model) ==
    LET m == to_lowercase(trim(model)) IN
    IF m \in {Name.gpt_4, Name.gpt_4_turbo, Name.gpt_4o, Name.gpt_4o_mini} THEN Name.gpt_4o
    ELSE IF m \in {Name.gpt_3_5, Name.gpt_3_5_turbo, Name.chatgpt} THEN Name.gpt_3_5_turbo
    ELSE IF m \in {Name.text_embedding_3_small, Name.embedding_small} THEN Name.text_embedding_3_small
    ELSE IF m \in {Name.text_embedding_3_large, Name.embedding_large} THEN Name.text_embedding_3_large
    ELSE IF m \in {Name.text_embedding_ada_002, Name.ada} THEN Name.text_embedding_ada_002
    ELSE model

\* normalize_model(model) of recursive_splitting.rs: it has one more arm, for Qwen
normalize_model(model) ==
    LET m == to_lowercase(trim(model)) IN
    IF m \in {Name.gpt_4o, Name.gpt_4, Name.gpt_4_turbo, Name.gpt_4o_mini} THEN Name.gpt_4o
    ELSE IF m \in {Name.gpt_3_5, Name.gpt_3_5_turbo, Name.chatgpt} THEN Name.gpt_3_5_turbo
    ELSE IF m \in {Name.text_embedding_3_small, Name.embedding_small} THEN Name.text_embedding_3_small
    ELSE IF m \in {Name.text_embedding_3_large, Name.embedding_large} THEN Name.text_embedding_3_large
    ELSE IF m \in {Name.text_embedding_ada_002, Name.ada} THEN Name.text_embedding_ada_002
    ELSE IF m \in {Name.qwen, Name.qwen_max, Name.qwen_plus, Name.qwen_turbo, Name.qwen_7b, Name.qwen_14b, Name.qwen_72b} THEN Name.gpt_4o
    ELSE model

\* tiktoken_rs::get_bpe_from_model(key): Some(encoder) for a model name the library
\* knows, None (its Err) for any other name.  An encoder is named by its encoding
get_bpe_from_model(key) ==
    IF key \in {Name.gpt_4o, Name.gpt_4o_mini} THEN Some("o200k_base")
    ELSE IF key \in {Name.gpt_4, Name.gpt_4_turbo, Name.gpt_3_5_turbo, Name.text_embedding_3_small,
                     Name.text_embedding_3_large, Name.text_embedding_ada_002}
         THEN Some("cl100k_base")
         ELSE None

\* how many "!" stand immediately before position i of text
BangsBefore(text, i) ==
    Cardinality({j \in 1 .. (i - 1) : \A m \in j .. (i - 1) : text[m] = "!"})

\* how many pairs "!!" a left-to-right byte-pair merge finds in text
BangPairs(text) ==
    Cardinality({i \in 1 .. (Len(text) - 1) :
                    /\ text[i] = "!"
                    /\ text[i + 1] = "!"
                    /\ BangsBefore(text, i) % 2 = 0})

\* how many characters of text an encoder makes two tokens of
TwoTokens(bpe, text) ==
    IF bpe = "cl100k_base"
    THEN Cardinality({i \in 1 .. Len(text) : text[i] = "U+4E2D"})
    ELSE 0

\* bpe.encode_with_special_tokens(text).len().  The byte-pair encoders of tiktoken_rs
\* are abstracted: whitespace goes with the token after it, "!!" is one token, an
\* ideograph is one token of o200k_base and two of cl100k_base, and every other
\* character is a token
encode_with_special_tokens(bpe, text) ==
    Cardinality({i \in 1 .. Len(text) : ~IsWhitespace(text[i])})
    + TwoTokens(bpe, text)
    - BangPairs(text)

----------------------------------------------------------------------------
(* RecursiveChunker: recursive_splitting.rs *)

HardWindow == 500   \* let mut end = i + 500

ForcedCut == 300    \* if end == i { end = i + 300; }

Model == <<"g", "p", "t", "-", "4", "o">>

\* RecursiveChunker::new: the encoder of the chunker, None when new panics
RecursiveChunker_new(model) == get_bpe_from_model(normalize_model(model))

\* token_count: self.bpe.encode_with_special_tokens(text).len()
token_count(text) == encode_with_special_tokens(RecursiveChunker_new(Model)[1], text)

\* make_chunk
make_chunk(content, page, offset, index) ==
    [content |-> content,
     page_number |-> page,
     chunk_index |-> index,
     char_range |-> <<offset, offset + ByteLen(content)>>,
     metadata |-> [model |-> Model, token_count |-> Digits(token_count(content))]]

\* str::split("\n\n")
RECURSIVE SplitBlankLines(_)
SplitBlankLines(text) ==
    IF \A i \in 1 .. (Len(text) - 1) : ~(text[i] = "\n" /\ text[i + 1] = "\n")
    THEN <<text>>
    ELSE LET at == CHOOSE i \in 1 .. (Len(text) - 1) :
                       /\ text[i] = "\n" /\ text[i + 1] = "\n"
                       /\ \A j \in 1 .. (i - 1) : ~(text[j] = "\n" /\ text[j + 1] = "\n")
         IN <<SubSeq(text, 1, at - 1)>> \o SplitBlankLines(SubSeq(text, at + 2, Len(text)))

\* .map(|s| s.trim().to_string())
RECURSIVE TrimAll(_)
TrimAll(strs) == IF strs = <<>> THEN <<>> ELSE <<trim(Head(strs))>> \o TrimAll(Tail(strs))

NonEmpty(strs) == SelectSeq(strs, LAMBDA x : x # <<>>)

\* split_paragraphs
split_paragraphs(text) == NonEmpty(TrimAll(SplitBlankLines(text)))

\* the character classes of CN_SENT and EN_SENT
CN_SENT == {"U+3002", "U+FF01", "U+FF1F", "\n"}

EN_SENT == {".", "!", "?", "\n"}

\* one pass of split_sentences: the loop over the matches of [class]+ from the
\* 1-based position start on, and the rest after the last match; the pieces are
\* trimmed and not yet filtered
RECURSIVE SplitAtMatches(_, _, _)
SplitAtMatches(text, class, start) ==
    IF \A i \in start .. Len(text) : text[i] \notin class
    THEN IF start <= Len(text) THEN <<trim(SubSeq(text, start, Len(text)))>> ELSE <<>>
    ELSE LET mat_start == CHOOSE i \in start .. Len(text) :
                              text[i] \in class /\ \A j \in start .. (i - 1) : text[j] \notin class
             mat_end == IF \A i \in mat_start .. Len(text) : text[i] \in class
                        THEN Len(text) + 1
                        ELSE CHOOSE i \in mat_start .. Len(text) :
                                 /\ text[i] \notin class
                                 /\ \A j \in mat_start .. (i - 1) : text[j] \in class
         IN (IF mat_start > start
             THEN <<trim(SubSeq(text, start, mat_start - 1))>>
             ELSE <<>>) \o SplitAtMatches(text, class, mat_end)

\* split_sentences
split_sentences(text) ==
    LET cn == SplitAtMatches(text, CN_SENT, 1)
    IN NonEmpty(IF Len(cn) <= 1 THEN SplitAtMatches(text, EN_SENT, 1) ELSE cn)

\* is_good_break
is_good_break(c) ==
    IsWhitespace(c) \/ c \in {"U+FF0C", ",", "U+FF1B", ";", "U+FF1A", ":", " ", "\n"}

Min2(a, b) == IF a < b THEN a ELSE b

\* the while loop of hard_split from i characters on; st is [chunks, chunk_index,
\* current_offset, panicked].  chars[i..end] with end > chars.len() panics
RECURSIVE hard_split_loop(_, _, _, _)
hard_split_loop(chars, page, i, st) ==
    IF i >= Len(chars) THEN st
    ELSE LET capped == Min2(i + HardWindow, Len(chars))
             breaks == {e \in (i + 1) .. capped : is_good_break(chars[e])}
             found == IF breaks = {} THEN i
                      ELSE CHOOSE e \in breaks : \A f \in breaks : f <= e
             end == IF found = i THEN i + ForcedCut ELSE found
         IN IF end > Len(chars) THEN [st EXCEPT !.panicked = TRUE]
            ELSE LET slice == SubSeq(chars, i + 1, end)
                 IN hard_split_loop(chars, page, end,
                        [st EXCEPT
                            !.chunks = Append(@, make_chunk(slice, page, st.current_offset,
                                                            st.chunk_index)),
                            !.chunk_index = @ + 1,
                            !.current_offset = @ + ByteLen(slice) + 1])

\* hard_split: the chunks, *chunk_index after the call, and whether it panicked
hard_split(text, page, start_offset, chunk_index) ==
    hard_split_loop(text, page, 0,
                    [chunks |-> <<>>, chunk_index |-> chunk_index,
                     current_offset |-> start_offset, panicked |-> FALSE])

\* hard_chunks.iter().map(|c| c.content.len() + 1).sum()
RECURSIVE total_len(_)
total_len(chunks) ==
    IF chunks = <<>> THEN 0 ELSE ByteLen(Head(chunks).content) + 1 + total_len(Tail(chunks))

RECURSIVE Contents(_)
Contents(chunks) ==
    IF chunks = <<>> THEN <<>> ELSE <<Head(chunks).content>> \o Contents(Tail(chunks))

\* chunks.push(make_chunk(text, page, current_offset, *chunk_index));
\* *chunk_index += 1; current_offset += text.len() + 1
Pushed(st, text, page) ==
    [st EXCEPT !.chunks = Append(@, make_chunk(text, page, st.current_offset, st.chunk_index)),
               !.chunk_index = @ + 1,
               !.current_offset = @ + ByteLen(text) + 1]

\* the mutant of AfterHardSplit that does not add hard_chunks.len() again
AfterHardSplit_once(st, h) ==
    [st EXCEPT !.chunks = @ \o h.chunks,
               !.current_offset = @ + total_len(h.chunks),
               !.chunk_index = h.chunk_index,
               !.buffer = <<>>]

\* lines 125-129 of recursive_split, after hard_split returned h: hard_split has
\* already advanced *chunk_index, and hard_chunks.len() is added to it again
AfterHardSplit(st, h) ==
    [st EXCEPT !.chunks = @ \o h.chunks,
               !.current_offset = @ + total_len(h.chunks),
               !.chunk_index = h.chunk_index + Len(h.chunks),
               !.buffer = <<>>]

\* the mutant of Overflow that flushes the buffer and starts the next one with
\* the sentence that did not fit
Overflow_restart(st, sent, page) ==
    LET flushed == IF st.buffer # <<>> THEN Pushed(st, st.buffer, page) ELSE st
    IN [flushed EXCEPT !.buffer = sent]

\* lines 110-121 of recursive_split, for a sentence that fits the budget alone:
\* the buffer is committed, then the sentence is committed as a chunk of its own
Overflow(st, sent, page) ==
    LET flushed == IF st.buffer # <<>> THEN Pushed(st, st.buffer, page) ELSE st
    IN [Pushed(flushed, sent, page) EXCEPT !.buffer = <<>>]

\* the for loop of recursive_split; st is [chunks, buffer, current_offset,
\* chunk_index, panicked, hard]
RECURSIVE recursive_split_loop(_, _, _)
recursive_split_loop(sentences, page, st) ==
    IF sentences = <<>> \/ st.panicked THEN st
    ELSE LET sent == trim(Head(sentences))
             rest == Tail(sentences)
             new_buffer == IF st.buffer = <<>> THEN sent ELSE st.buffer \o <<" ">> \o sent
         IN IF sent = <<>> THEN recursive_split_loop(rest, page, st)
            ELSE IF token_count(new_buffer) <= max_tokens
            THEN recursive_split_loop(rest, page, [st EXCEPT !.buffer = new_buffer])
            ELSE IF token_count(sent) <= max_tokens
            THEN recursive_split_loop(rest, page, Overflow(st, sent, page))
            ELSE LET flushed == IF st.buffer # <<>> THEN Pushed(st, st.buffer, page) ELSE st
                     h == hard_split(sent, page, flushed.current_offset, flushed.chunk_index)
                     call == [text |-> sent, windows |-> Contents(h.chunks),
                              panicked |-> h.panicked]
                     logged == [flushed EXCEPT !.hard = Append(@, call)]
                 IN IF h.panicked THEN [logged EXCEPT !.panicked = TRUE]
                    ELSE recursive_split_loop(rest, page, AfterHardSplit(logged, h))

\* recursive_split: the chunks, *chunk_index after the call, whether it panicked,
\* and the hard_split calls it made
recursive_split(text, page, start_offset, chunk_index) ==
    LET st == recursive_split_loop(split_sentences(text), page,
                  [chunks |-> <<>>, buffer |-> <<>>, current_offset |-> start_offset,
                   chunk_index |-> chunk_index, panicked |-> FALSE, hard |-> <<>>])
    IN IF st.buffer # <<>> /\ ~st.panicked THEN Pushed(st, st.buffer, page) ELSE st

----------------------------------------------------------------------------
(* RecursiveChunker::chunk, one step per page and per paragraph *)

Run(c, n) == [i \in 1 .. n |-> c]

\* the paragraph of the sentences of sizes[1], sizes[2], ... characters, each
\* followed by a full stop
RECURSIVE SentencesOf(_)
SentencesOf(sizes) ==
    IF sizes = <<>> THEN <<>>
    ELSE Run("a", Head(sizes)) \o <<".">> \o SentencesOf(Tail(sizes))

SentenceSizes == {1, 2}

\* one page holding one paragraph of up to MaxSentences short sentences
SentenceDocs ==
    {<< <<1, SentencesOf(sizes)>> >> :
        sizes \in UNION {[1 .. n -> SentenceSizes] : n \in 1 .. MaxSentences}}

\* paragraphs that take the chunker through its branches
Shapes ==
    {<<"a">>,
     <<"a", " ", "a", "a", "a">>,
     <<"a", "a", "a", "a", ",", ".", "b">>,
     <<"U+4E2D", "U+4E2D", "U+3002", "U+4E2D", "U+4E2D", "U+4E2D">>,
     Run("a", 3 * ForcedCut),
     Run("a", HardWindow - 1) \o <<",">> \o Run("a", ForcedCut) \o <<".", "a">>}

\* the pages of the paragraphs paras, paragraph k + 1 separated from paragraph k
\* by a blank line or by a page break
RECURSIVE PagesOf(_, _)
PagesOf(paras, breaks) ==
    IF Len(paras) = 1 THEN << <<1, paras[1]>> >>
    ELSE LET n == Len(paras)
             before == PagesOf(SubSeq(paras, 1, n - 1), SubSeq(breaks, 1, n - 2))
             last == before[Len(before)]
         IN IF breaks[n - 1] = "page"
            THEN Append(before, <<last[1] + 1, paras[n]>>)
            ELSE [before EXCEPT ![Len(before)] =
                                    <<last[1], last[2] \o <<"\n", "\n">> \o paras[n]>>]

ShapeDocs ==
    {PagesOf(paras, breaks) :
        <<paras, breaks>> \in UNION {[1 .. n -> Shapes] \X [1 .. (n - 1) -> {"blank", "page"}] :
                                        n \in 1 .. MaxParas}}

Budgets == {3, 8}

ChunkerIdle ==
    /\ tree = NodeTree_new(new_root(1, DocId, None))
    /\ nextId = 2
    /\ pool = {}
    /\ op = "chunk"
    /\ arg = None
    /\ result = "Ok"
    /\ path = [path |-> <<>>, done |-> TRUE]
    /\ md = <<>> /\ open = <<>> /\ pc = "idle" /\ nevents = 0 /\ created = <<>>
    /\ TokIdle
    /\ FaqIdle

\* RecursiveChunker::new(max_tokens, model), then chunk(input) up to its for loop
ChunkerInit ==
    /\ ChunkerIdle
    /\ input \in SentenceDocs \cup ShapeDocs
    /\ max_tokens \in Budgets
    /\ ck = [pages |-> input, page |-> 0, paragraphs |-> <<>>, chunks |-> <<>>,
             global_offset |-> 0, chunk_index |-> 0]
    /\ cpc = "chunking"
    /\ hards = <<>>

\* for (page, page_text) in text_with_pages: the next page is split in paragraphs
NextPage ==
    /\ cpc = "chunking"
    /\ ck.paragraphs = <<>>
    /\ ck.pages # <<>>
    /\ ck' = [ck EXCEPT !.pages = Tail(@),
                        !.page = Head(ck.pages)[1],
                        !.paragraphs = split_paragraphs(Head(ck.pages)[2])]
    /\ UNCHANGED <<input, max_tokens, cpc, hards>>
    /\ UNCHANGED <<treeVars, mdVars, tokVars, faqVars>>

\* a paragraph within the budget becomes one chunk
ChunkParagraph ==
    /\ cpc = "chunking"
    /\ ck.paragraphs # <<>>
    /\ LET para == Head(ck.paragraphs) IN
       /\ token_count(para) <= max_tokens
       /\ ck' = [ck EXCEPT
                    !.paragraphs = Tail(@),
                    !.chunks = Append(@, make_chunk(para, ck.page, ck.global_offset,
                                                    ck.chunk_index)),
                    !.chunk_index = @ + 1,
                    !.global_offset = @ + ByteLen(para) + 1]
    /\ UNCHANGED <<input, max_tokens, cpc, hards>>
    /\ UNCHANGED <<treeVars, mdVars, tokVars, faqVars>>

\* a paragraph over the budget goes through recursive_split
SplitParagraph ==
    /\ cpc = "chunking"
    /\ ck.paragraphs # <<>>
    /\ LET para == Head(ck.paragraphs)
           r == recursive_split(para, ck.page, ck.global_offset, ck.chunk_index)
       IN /\ token_count(para) > max_tokens
          /\ hards' = hards \o r.hard
          /\ IF r.panicked
             THEN cpc' = "panicked" /\ ck' = ck
             ELSE /\ cpc' = cpc
                  /\ ck' = [ck EXCEPT !.paragraphs = Tail(@),
                                      !.chunks = @ \o r.chunks,
                                      !.chunk_index = r.chunk_index,
                                      !.global_offset = @ + ByteLen(para) + 1]
    /\ UNCHANGED <<input, max_tokens>>
    /\ UNCHANGED <<treeVars, mdVars, tokVars, faqVars>>

\* the loops are over: chunk returns chunks
Return ==
    /\ cpc = "chunking"
    /\ ck.paragraphs = <<>>
    /\ ck.pages = <<>>
    /\ cpc' = "done"
    /\ UNCHANGED <<input, max_tokens, ck, hards>>
    /\ UNCHANGED <<treeVars, mdVars, tokVars, faqVars>>

ChunkerNext == NextPage \/ ChunkParagraph \/ SplitParagraph \/ Return

SpecChunker == ChunkerInit /\ [][ChunkerNext]_vars

----------------------------------------------------------------------------
(* Claims about the recursive chunker *)

\* C6: every chunk chunk has emitted has a token count of at most max_tokens.
C6_ChunksWithinBudget ==
    \A n \in 1 .. Len(ck.chunks) : token_count(ck.chunks[n].content) <= max_tokens

\* C7: the chunk at position n of the output (counting from 0) has chunk_index n.
C7_ChunkIndexIsPosition ==
    \A n \in 1 .. Len(ck.chunks) : ck.chunks[n].chunk_index = n - 1

\* C8: the char_range of every chunk starts at or after the end of the char_range
\* of the chunk before it.
C8_RangesDoNotOverlap ==
    \A n \in 1 .. (Len(ck.chunks) - 1) :
        ck.chunks[n + 1].char_range[1] >= ck.chunks[n].char_range[2]

\* the sentences from..to of a paragraph as recursive_split joins them
Joined(sentences, from, to) == join(SubSeq(sentences, from, to), <<" ">>)

\* the input is one over-budget paragraph of 10 sentences, of which 1-6 fit the
\* budget together, 1-7 do not, and 7-10 fit together
TenSentenceScenario ==
    /\ Len(input) = 1
    /\ split_paragraphs(input[1][2]) = <<input[1][2]>>
    /\ token_count(input[1][2]) > max_tokens
    /\ LET sentences == split_sentences(input[1][2]) IN
       /\ Len(sentences) = 10
       /\ token_count(Joined(sentences, 1, 6)) <= max_tokens
       /\ token_count(Joined(sentences, 1, 7)) > max_tokens
       /\ token_count(Joined(sentences, 7, 10)) <= max_tokens

\* C9 as claimed: in that scenario chunk emits exactly 2 chunks, sentences 1-6
\* and sentences 7-10.
C9_TwoChunks ==
    (cpc = "done" /\ TenSentenceScenario) =>
        LET sentences == split_sentences(input[1][2]) IN
        Contents(ck.chunks) = <<Joined(sentences, 1, 6), Joined(sentences, 7, 10)>>

\* C9 amended: in that scenario chunk emits exactly 3 chunks: sentences 1-6,
\* sentence 7 alone, and sentences 8-10.
C9_ThreeChunks ==
    (cpc = "done" /\ TenSentenceScenario) =>
        LET sentences == split_sentences(input[1][2]) IN
        Contents(ck.chunks) =
            <<Joined(sentences, 1, 6), sentences[7], Joined(sentences, 8, 10)>>

\* chunk has returned from a ten-sentence scenario
C9_Witness ==
    /\ cpc = "done"
    /\ TenSentenceScenario
    /\ Len(ck.chunks) = 3

RECURSIVE Concat(_)
Concat(strs) == IF strs = <<>> THEN <<>> ELSE Head(strs) \o Concat(Tail(strs))

\* C10: every hard_split call terminates normally, each of its windows has
\* between 1 and 500 characters, and the windows concatenated are the sentence;
\* chunk terminates normally.
C10_HardSplitTerminates ==
    /\ cpc # "panicked"
    /\ \A k \in 1 .. Len(hards) :
          /\ ~hards[k].panicked
          /\ \A w \in 1 .. Len(hards[k].windows) :
                Len(hards[k].windows[w]) \in 1 .. HardWindow
          /\ Concat(hards[k].windows) = hards[k].text

\* the characters of a text that are not whitespace, in order
NonWhitespace(text) == SelectSeq(text, LAMBDA c : ~IsWhitespace(c))

\* the page texts of text_with_pages, in order
PageTexts(pages) == [i \in 1 .. Len(pages) |-> pages[i][2]]

\* C11: once chunk has returned, the contents of the chunks concatenated in
\* emission order hold every non-whitespace character of the input (sentence-ending
\* punctuation included) exactly once and in order.
C11_ConcatenationReproducesInput ==
    cpc = "done" =>
        NonWhitespace(Concat(Contents(ck.chunks))) = NonWhitespace(Concat(PageTexts(input)))

----------------------------------------------------------------------------
(* count_tokens called from several threads: tiktoken.rs *)

MaxCalls == 3       \* count_tokens calls the threads start, all together

\* what the callers pass: aliases, canonical names, a name with blanks and
\* capitals, and a Qwen name
TokModels == {Name.gpt_4, Name.gpt_4_turbo, Name.gpt_3_5_turbo, Name.qwen_max, <<" ", "G", "P", "T", "-", "4", " ">>}

TokTexts == {<<"U+4E2D", "!", "!">>, <<"a">>}

\* cache.entry(key).or_insert_with(|| get_bpe_from_model(&key).expect(..)) as the
\* mutant that constructs an encoder whether or not the key is there
entry_always_insert(c, key) ==
    LET b == get_bpe_from_model(key) IN
    IF b = None THEN [cache |-> c, bpe |-> None, built |-> FALSE]
    ELSE [cache |-> (key :> b[1]) @@ c, bpe |-> b, built |-> TRUE]

\* cache.entry(key).or_insert_with(|| get_bpe_from_model(&key).expect(..)): the cache
\* after it, the encoder found or inserted (None when expect panics), and whether
\* an encoder was constructed
entry_or_insert_with(c, key) ==
    IF key \in DOMAIN c
    THEN [cache |-> c, bpe |-> Some(c[key]), built |-> FALSE]
    ELSE LET b == get_bpe_from_model(key) IN
         IF b = None THEN [cache |-> c, bpe |-> None, built |-> FALSE]
         ELSE [cache |-> (key :> b[1]) @@ c, bpe |-> b, built |-> TRUE]

\* the mutant of the end of the block that keeps the guard alive
guard_kept(holder) == holder

\* the block of `let bpe = { .. };` ends: the MutexGuard `cache` is dropped
guard_dropped(holder) == None

\* one more encoder was constructed for key
Built(b, key) == IF key \in DOMAIN b THEN [b EXCEPT ![key] = @ + 1] ELSE (key :> 1) @@ b

\* the call of thread t is over with the outcome out: Some(count), or None for a panic
Ended(t, out) ==
    calls' = calls \cup {[text |-> th[t].text, model |-> th[t].model, key |-> th[t].key, out |-> out]}

TokInit ==
    /\ tree = NodeTree_new(new_root(1, DocId, None))
    /\ nextId = 2
    /\ pool = {}
    /\ op = "count_tokens"
    /\ arg = None
    /\ result = "Ok"
    /\ path = [path |-> <<>>, done |-> TRUE]
    /\ md = <<>> /\ open = <<>> /\ pc = "idle" /\ nevents = 0 /\ created = <<>>
    /\ input = <<>> /\ max_tokens = 0 /\ ck = <<>> /\ cpc = "idle" /\ hards = <<>>
    /\ TokIdle
    /\ FaqIdle

\* thread t enters count_tokens(text, model) and normalizes the model name
Call(t) ==
    /\ th[t].pc = "idle"
    /\ ncalls < MaxCalls
    /\ ncalls' = ncalls + 1
    /\ \E text \in TokTexts, model \in TokModels :
          th' = [th EXCEPT ![t] = [pc |-> "lock", text |-> text, model |-> model,
                                   key |-> normalize_model_name(model), bpe |-> None]]
    /\ UNCHANGED <<cache, poisoned, lock, built, calls>>
    /\ UNCHANGED <<treeVars, mdVars, ckVars, faqVars>>

\* BPE_CACHE.lock().unwrap(): the thread waits for the lock; a poisoned lock makes
\* unwrap panic, and the guard inside the error is dropped at once
Lock(t) ==
    /\ th[t].pc = "lock"
    /\ lock = None
    /\ IF poisoned
       THEN /\ th' = [th EXCEPT ![t].pc = "panicked"]
            /\ Ended(t, None)
            /\ lock' = lock
       ELSE /\ th' = [th EXCEPT ![t].pc = "locked"]
            /\ lock' = Some(t)
            /\ calls' = calls
    /\ UNCHANGED <<cache, poisoned, built, ncalls>>
    /\ UNCHANGED <<treeVars, mdVars, ckVars, faqVars>>

\* cache.entry(..).or_insert_with(..).clone(); when expect panics the guard is
\* dropped by the unwinding thread, which poisons the lock
Entry(t) ==
    /\ th[t].pc = "locked"
    /\ LET r == entry_or_insert_with(cache, th[t].key) IN
       IF r.bpe = None
       THEN /\ th' = [th EXCEPT ![t].pc = "panicked"]
            /\ Ended(t, None)
            /\ poisoned' = TRUE
            /\ lock' = None
            /\ UNCHANGED <<cache, built>>
       ELSE /\ th' = [th EXCEPT ![t].pc = "cloned", ![t].bpe = r.bpe]
            /\ cache' = r.cache
            /\ built' = IF r.built THEN Built(built, th[t].key) ELSE built
            /\ UNCHANGED <<poisoned, lock, calls>>
    /\ UNCHANGED ncalls
    /\ UNCHANGED <<treeVars, mdVars, ckVars, faqVars>>

\* the block ends
Release(t) ==
    /\ th[t].pc = "cloned"
    /\ lock' = guard_dropped(lock)
    /\ th' = [th EXCEPT ![t].pc = "encoding"]
    /\ UNCHANGED <<cache, poisoned, built, calls, ncalls>>
    /\ UNCHANGED <<treeVars, mdVars, ckVars, faqVars>>

\* bpe.encode_with_special_tokens(text).len() is returned
Encode(t) ==
    /\ th[t].pc = "encoding"
    /\ Ended(t, Some(encode_with_special_tokens(th[t].bpe[1], th[t].text)))
    /\ th' = [th EXCEPT ![t].pc = "idle"]
    /\ UNCHANGED <<cache, poisoned, lock, built, ncalls>>
    /\ UNCHANGED <<treeVars, mdVars, ckVars, faqVars>>

TokNext == \E t \in Threads : Call(t) \/ Lock(t) \/ Entry(t) \/ Release(t) \/ Encode(t)

SpecTok == TokInit /\ [][TokNext]_vars

----------------------------------------------------------------------------
(* Claims about the Tokenizer Service *)

\* the names the match of normalize_model_name has an arm for
KnownAliases ==
    {Name.gpt_4, Name.gpt_4_turbo, Name.gpt_4o, Name.gpt_4o_mini, Name.gpt_3_5, Name.gpt_3_5_turbo, Name.chatgpt,
     Name.text_embedding_3_small, Name.embedding_small, Name.text_embedding_3_large, Name.embedding_large,
     Name.text_embedding_ada_002, Name.ada}

\* C15: "gpt-4", "gpt-4-turbo" and "qwen-max" normalize to one and the same key,
\* a key count_tokens has an encoder for; a name that is not a known alias is the
\* key unchanged.
C15_AliasesShareOneKey ==
    /\ \A c1, c2 \in calls :
          {c1.model, c2.model} \subseteq {Name.gpt_4, Name.gpt_4_turbo, Name.qwen_max} => c1.key = c2.key
    /\ \A c \in calls :
          c.model \in {Name.gpt_4, Name.gpt_4_turbo, Name.qwen_max} => get_bpe_from_model(c.key) # None
    /\ \A c \in calls :
          to_lowercase(trim(c.model)) \notin KnownAliases => c.key = c.model

\* two model names the claim says give the same counts
SameModel(m1, m2) == m1 = m2 \/ {m1, m2} \subseteq {Name.gpt_4, Name.gpt_4_turbo}

\* C16: two calls of count_tokens with the same text and the same model (or one
\* with "gpt-4" and one with "gpt-4-turbo") have the same result, whatever calls
\* were made before them.
C16_Deterministic ==
    \A c1, c2 \in calls :
        (c1.text = c2.text /\ SameModel(c1.model, c2.model)) => c1.out = c2.out

\* thread t holds the guard of BPE_CACHE
InCritical(t) == th[t].pc \in {"locked", "cloned"}

\* C17: at most one thread is between lock() and the end of the block, and it is
\* the holder of the lock; at most one encoder is constructed per key; every key of
\* the cache is a canonical name (normalizing it changes nothing); and no step
\* removes or replaces an entry of the cache.
C17_CacheGuarded ==
    /\ [](/\ \A t1, t2 \in Threads : (InCritical(t1) /\ InCritical(t2)) => t1 = t2
          /\ \A t \in Threads : InCritical(t) => lock = Some(t)
          /\ \A k \in DOMAIN built : built[k] <= 1
          /\ \A k \in DOMAIN cache : normalize_model_name(k) = k)
    /\ [][\A k \in DOMAIN cache : k \in DOMAIN cache' /\ cache'[k] = cache[k]]_vars

\* a thread found in the cache the encoder another call constructed, while the
\* other thread waits for the lock
C17_Witness ==
    \E t1, t2 \in Threads :
        /\ t1 # t2
        /\ th[t1].pc = "cloned"
        /\ th[t2].pc = "lock"
        /\ \E c \in calls : c.key = th[t1].key /\ c.out # None

\* C18: a thread that is tokenizing does not hold the lock of BPE_CACHE.
C18_LockNotHeldWhileEncoding ==
    \A t \in Threads : th[t].pc = "encoding" => lock # Some(t)

\* two threads tokenize at the same time
C18_Witness ==
    \E t1, t2 \in Threads : t1 # t2 /\ th[t1].pc = "encoding" /\ th[t2].pc = "encoding"

----------------------------------------------------------------------------
(* FAQChunker: faq.rs *)

UnitMin == 50       \* has_clause_end && current_unit.len() > 50

sentence_endings == {".", "U+3002", "!", "U+FF01", "?", "U+FF1F", ";", "U+FF1B"}

clause_endings == {"U+FF0C", ",", "U+3001", "U+FF1A", ":", "\n"}

\* FAQChunker::new(max_tokens, overlap, model): it cannot fail
FAQChunker_new(max_tokens_, overlap, model) ==
    [max_tokens |-> max_tokens_, overlap |-> overlap, model |-> model]

\* FAQChunker::count_tokens(text) = tiktoken::count_tokens(text, &self.model), for a
\* model count_tokens has an encoder for
FAQChunker_count_tokens(self, text) ==
    encode_with_special_tokens(get_bpe_from_model(normalize_model_name(self.model))[1], text)

\* self.jieba.cut(text, true).  Of the words of jieba only the place of the
\* punctuation matters below, and jieba makes a word of every punctuation mark, so
\* the segmentation is abstracted to one word per character
cut(text) == [i \in 1 .. Len(text) |-> <<text[i]>>]

\* word.chars().any(|c| set.contains(&c))
has_any(word, set) == \E i \in 1 .. Len(word) : word[i] \in set

RECURSIVE semantic_loop(_, _, _)
\* split_into_semantic_units: the loop over the words and the last unit
semantic_loop(words, current_unit, units) ==
    IF words = <<>>
    THEN IF trim(current_unit) # <<>> THEN Append(units, trim(current_unit)) ELSE units
    ELSE LET unit == current_unit \o Head(words) IN
         IF has_any(Head(words), sentence_endings)
         THEN semantic_loop(Tail(words), <<>>, Append(units, trim(unit)))
         ELSE IF has_any(Head(words), clause_endings) /\ ByteLen(unit) > UnitMin
              THEN semantic_loop(Tail(words), <<>>, Append(units, trim(unit)))
              ELSE semantic_loop(Tail(words), unit, units)

\* split_into_semantic_units
split_into_semantic_units(text) == NonEmpty(semantic_loop(cut(text), <<>>, <<>>))

RECURSIVE split_at_any(_, _, _)
\* str::split(&[chars]): the pieces between the separators, empty ones included
split_at_any(text, seps, piece) ==
    IF text = <<>> THEN <<piece>>
    ELSE IF Head(text) \in seps
         THEN <<piece>> \o split_at_any(Tail(text), seps, <<>>)
         ELSE split_at_any(Tail(text), seps, Append(piece, Head(text)))

\* the fallback of split_long_qa: text.split(..).filter(!trim().is_empty()).map(trim)
sentence_units(text) == NonEmpty(TrimAll(split_at_any(text, sentence_endings, <<>>)))

\* the units of split_long_qa
UnitsOf(text) ==
    IF Len(split_into_semantic_units(text)) > 1
    THEN split_into_semantic_units(text)
    ELSE sentence_units(text)

\* format!("{:03}", n)
Pad3(n) == IF n < 10 THEN <<"0", "0">> \o Digits(n) ELSE IF n < 100 THEN <<"0">> \o Digits(n) ELSE Digits(n)

\* entry.category.replace(" ", "-").to_lowercase()
category_key(category) ==
    to_lowercase([i \in 1 .. Len(category) |-> IF category[i] = " " THEN "-" ELSE category[i]])

\* the mutant of FaqId that gives every entry the number 001
FaqId_first(entry, entry_idx) ==
    <<"f", "a", "q", "-">> \o category_key(entry.category) \o <<"-", "0", "0", "1">>

\* format!("faq-{}-{:03}", category_key, entry_idx + 1)
FaqId(entry, entry_idx) ==
    <<"f", "a", "q", "-">> \o category_key(entry.category) \o <<"-">> \o Pad3(entry_idx + 1)

\* format!("Q: {}\nA: {}", entry.q.trim(), entry.a.trim())
RawContent(entry) ==
    <<"Q", ":", " ">> \o trim(entry.q) \o <<"\n", "A", ":", " ">> \o trim(entry.a)

\* the mutant of FAQChunk that numbers the chunks of an entry from 0
FAQChunk_from_zero(faq_id, chunk_idx, entry, content, count) ==
    [chunk_id |-> faq_id \o <<"-", "c", "h", "u", "n", "k", "-">> \o Digits(chunk_idx - 1),
     faq_id |-> faq_id,
     category |-> entry.category,
     title |-> trim(entry.q),
     content |-> content,
     tags |-> entry.tags,
     token_count |-> count]

\* FAQChunk { .. }
FAQChunk(faq_id, chunk_idx, entry, content, count) ==
    [chunk_id |-> faq_id \o <<"-", "c", "h", "u", "n", "k", "-">> \o Digits(chunk_idx),
     faq_id |-> faq_id,
     category |-> entry.category,
     title |-> trim(entry.q),
     content |-> content,
     tags |-> entry.tags,
     token_count |-> count]

\* the mutant of the overlap that starts the next chunk at the overflowing unit
OverlapStart_none(unit_idx, overlap) == unit_idx

\* let start_idx = if unit_idx >= self.overlap { unit_idx - self.overlap } else { 0 }
OverlapStart(unit_idx, overlap) == IF unit_idx >= overlap THEN unit_idx - overlap ELSE 0

\* the chunk of the units collected so far is pushed
Flushed(self, st, faq_id, entry) ==
    [st EXCEPT !.chunks = Append(@, FAQChunk(faq_id, st.current_chunk_idx, entry,
                                             join(st.current_units, <<>>),
                                             st.current_token_count)),
               !.groups = Append(@, st.current_units)]

RECURSIVE split_loop(_, _, _, _, _, _)
\* split_long_qa: for (unit_idx, unit) in units.iter().enumerate(), then the last chunk
split_loop(self, units, unit_idx, st, faq_id, entry) ==
    IF unit_idx >= Len(units)
    THEN IF st.current_units # <<>> THEN Flushed(self, st, faq_id, entry) ELSE st
    ELSE LET unit_trimmed == trim(units[unit_idx + 1])
             unit_tokens == FAQChunker_count_tokens(self, unit_trimmed)
             new_token_count == st.current_token_count + unit_tokens
             start_idx == OverlapStart(unit_idx, self.overlap)
             overlapped == TrimAll(SubSeq(units, start_idx + 1, unit_idx + 1))
             f == Flushed(self, st, faq_id, entry)
         IN
         IF unit_trimmed = <<>>
         THEN split_loop(self, units, unit_idx + 1, st, faq_id, entry)
         ELSE IF new_token_count > self.max_tokens /\ st.current_units # <<>>
              THEN split_loop(self, units, unit_idx + 1,
                        IF self.overlap > 0
                        THEN [f EXCEPT !.current_units = overlapped,
                                       !.current_token_count =
                                           FAQChunker_count_tokens(self, join(overlapped, <<>>)),
                                       !.current_chunk_idx = @ + 1]
                        ELSE [f EXCEPT !.current_units = <<unit_trimmed>>,
                                       !.current_token_count = unit_tokens,
                                       !.current_chunk_idx = @ + 1],
                        faq_id, entry)
              ELSE split_loop(self, units, unit_idx + 1,
                        [st EXCEPT !.current_units = Append(@, unit_trimmed),
                                   !.current_token_count = new_token_count],
                        faq_id, entry)

\* split_long_qa(text, faq_id, entry): its chunks, and for each the units it joined
split_long_qa(self, text, faq_id, entry) ==
    split_loop(self, UnitsOf(text), 0,
               [chunks |-> <<>>, groups |-> <<>>, current_chunk_idx |-> 1,
                current_units |-> <<>>, current_token_count |-> 0],
               faq_id, entry)

----------------------------------------------------------------------------
(* A caller constructs a FAQChunker and calls chunk_by_qa *)

MaxEntries == 2     \* entries of the Vec<FAQEntry> given to chunk_by_qa

\* the answers: a short one, sentences, a doubled mark, a clause that ends more
\* than UnitMin bytes into the content (15 ideographs of 3 bytes), and one sentence
\* with its mark at the end
FaqAnswers ==
    {<<"a">>,
     <<"a", "!", "b", "!", "c", "!", "d", "!">>,
     <<"a", "!", "!", "b", "!", "c", "!">>,
     Run("U+4E2D", 15) \o <<",", "b", "!">>,
     <<"a", " ", "b", " ", "c", " ", "d", "!">>}

\* the entries: every answer in the category "G", and the short answer in the
\* category "G T", whose name has a blank
FaqEntries ==
    {[category |-> <<"G">>, q |-> <<"q">>, a |-> a, tags |-> <<>>] : a \in FaqAnswers}
        \cup {[category |-> <<"G", " ", "T">>, q |-> <<"q">>, a |-> <<"a">>, tags |-> <<>>]}

\* the Vecs of at most n entries
EntryLists(n) == UNION {[1 .. m -> FaqEntries] : m \in 0 .. n}

FaqBudgets == {7, 9}

Overlaps == {0, 1, 2}

FaqModels == {Name.gpt_4, Name.qwen_max}

\* the arguments of FAQChunker::new and of chunk_by_qa are chosen
FaqInit ==
    /\ tree = NodeTree_new(new_root(1, DocId, None))
    /\ nextId = 2
    /\ pool = {}
    /\ op = "chunk_by_qa"
    /\ arg = None
    /\ result = "Ok"
    /\ path = [path |-> <<>>, done |-> TRUE]
    /\ md = <<>> /\ open = <<>> /\ pc = "idle" /\ nevents = 0 /\ created = <<>>
    /\ input = <<>> /\ max_tokens = 0 /\ ck = <<>> /\ cpc = "idle" /\ hards = <<>>
    /\ TokIdle
    /\ fcfg \in {FAQChunker_new(m, o, model) : m \in FaqBudgets, o \in Overlaps, model \in FaqModels}
    /\ faq \in {[entries |-> es, entry_idx |-> 0, chunks |-> <<>>] : es \in EntryLists(MaxEntries)}
    /\ fpc = "new"
    /\ groups = <<>>

\* count_tokens has an encoder for the model of the chunker
Supported(self) == get_bpe_from_model(normalize_model_name(self.model)) # None

\* the effect on BPE_CACHE of the count_tokens calls of one entry
Counted ==
    LET r == entry_or_insert_with(cache, normalize_model_name(fcfg.model)) IN
    /\ cache' = r.cache
    /\ built' = IF r.built THEN Built(built, normalize_model_name(fcfg.model)) ELSE built
    /\ UNCHANGED <<poisoned, lock, th, calls, ncalls>>

\* FAQChunker::new returns the chunker
FaqNew ==
    /\ fpc = "new"
    /\ fpc' = "ready"
    /\ UNCHANGED <<fcfg, faq, groups>>
    /\ UNCHANGED <<treeVars, mdVars, ckVars, tokVars>>

\* chunk_by_qa: the first count_tokens of an entry panics ("Unsupported model")
\* while it holds the lock of BPE_CACHE
FaqUnsupported ==
    /\ fpc \in {"ready", "chunking"}
    /\ faq.entry_idx < Len(faq.entries)
    /\ ~Supported(fcfg)
    /\ fpc' = "panicked"
    /\ poisoned' = TRUE
    /\ UNCHANGED <<cache, lock, th, built, calls, ncalls>>
    /\ UNCHANGED <<fcfg, faq, groups>>
    /\ UNCHANGED <<treeVars, mdVars, ckVars>>

\* chunk_by_qa: an entry within the budget is one chunk
FaqDirect ==
    /\ fpc \in {"ready", "chunking"}
    /\ faq.entry_idx < Len(faq.entries)
    /\ Supported(fcfg)
    /\ LET entry == faq.entries[faq.entry_idx + 1]
           raw_content == RawContent(entry)
           raw_token_count == FAQChunker_count_tokens(fcfg, raw_content)
       IN /\ raw_token_count <= fcfg.max_tokens
          /\ faq' = [faq EXCEPT !.entry_idx = @ + 1,
                                !.chunks = Append(@, FAQChunk(FaqId(entry, faq.entry_idx), 1, entry,
                                                              raw_content, raw_token_count))]
    /\ fpc' = "chunking"
    /\ Counted
    /\ UNCHANGED <<fcfg, groups>>
    /\ UNCHANGED <<treeVars, mdVars, ckVars>>

\* chunk_by_qa: an entry over the budget goes through split_long_qa
FaqSplit ==
    /\ fpc \in {"ready", "chunking"}
    /\ faq.entry_idx < Len(faq.entries)
    /\ Supported(fcfg)
    /\ LET entry == faq.entries[faq.entry_idx + 1]
           raw_content == RawContent(entry)
           r == split_long_qa(fcfg, raw_content, FaqId(entry, faq.entry_idx), entry)
       IN /\ FAQChunker_count_tokens(fcfg, raw_content) > fcfg.max_tokens
          /\ faq' = [faq EXCEPT !.entry_idx = @ + 1, !.chunks = @ \o r.chunks]
          /\ groups' = Append(groups, r.groups)
    /\ fpc' = "chunking"
    /\ Counted
    /\ UNCHANGED fcfg
    /\ UNCHANGED <<treeVars, mdVars, ckVars>>

\* chunk_by_qa returns chunks
FaqReturn ==
    /\ fpc \in {"ready", "chunking"}
    /\ faq.entry_idx = Len(faq.entries)
    /\ fpc' = "done"
    /\ UNCHANGED <<fcfg, faq, groups>>
    /\ UNCHANGED <<treeVars, mdVars, ckVars, tokVars>>

FaqNext == FaqNew \/ FaqUnsupported \/ FaqDirect \/ FaqSplit \/ FaqReturn

SpecFaq == FaqInit /\ [][FaqNext]_vars

----------------------------------------------------------------------------
(* Claims about the FAQ chunker *)

\* the last n elements of a sequence
LastN(seq, n) == SubSeq(seq, Len(seq) - n + 1, Len(seq))

\* C12 as claimed: with overlap = k > 0, for every two consecutive chunks of a
\* split entry the first k units of the second are the last k units of the first.
C12_LeadingKEqualTrailingK ==
    fcfg.overlap > 0 =>
        \A e \in 1 .. Len(groups) : \A i \in 1 .. (Len(groups[e]) - 1) :
            /\ Len(groups[e][i]) >= fcfg.overlap
            /\ Len(groups[e][i + 1]) >= fcfg.overlap
            /\ SubSeq(groups[e][i + 1], 1, fcfg.overlap) = LastN(groups[e][i], fcfg.overlap)

\* C12 amended: with overlap = k > 0, for every two consecutive chunks of a split
\* entry, of which the first has n units, the first min(k, n) units of the second
\* are the last min(k, n) units of the first.
C12_LeadingEqualTrailingUpToK ==
    fcfg.overlap > 0 =>
        \A e \in 1 .. Len(groups) : \A i \in 1 .. (Len(groups[e]) - 1) :
            LET m == Min2(fcfg.overlap, Len(groups[e][i])) IN
            /\ Len(groups[e][i + 1]) >= m
            /\ SubSeq(groups[e][i + 1], 1, m) = LastN(groups[e][i], m)

\* an entry was split with overlap 2 in three chunks, the first of one unit
C12_Witness ==
    /\ fcfg.overlap = 2
    /\ \E e \in 1 .. Len(groups) :
          /\ Len(groups[e]) >= 3
          /\ Len(groups[e][1]) = 1
          /\ Len(groups[e][2]) >= 2

\* C13: every chunk of chunk_by_qa has a content of at most max_tokens tokens.
C13_FaqChunksWithinBudget ==
    \A n \in 1 .. Len(faq.chunks) :
        FAQChunker_count_tokens(fcfg, faq.chunks[n].content) <= fcfg.max_tokens

\* C14: the token_count of every chunk is what count_tokens gives for its content
\* and the model of the chunker.
C14_TokenCountReproducible ==
    \A n \in 1 .. Len(faq.chunks) :
        faq.chunks[n].token_count = FAQChunker_count_tokens(fcfg, faq.chunks[n].content)

\* C19: a chunker whose model count_tokens has no encoder for is not constructed,
\* and a constructed chunker never panics because of its model.
C19_FailsAtConstruction ==
    /\ (fpc # "new" /\ ~Supported(fcfg)) => fpc = "failed"
    /\ fpc # "panicked"

----------------------------------------------------------------------------
(* Claims about the root of the tree *)

\* the ids of the Root nodes of the tree
RootNodes == {id \in DOMAIN tree.nodes : tree.nodes[id].kind = "Root"}

\* C20: the tree holds exactly one Root node, and its id is tree.root.
C20_ExactlyOneRoot == RootNodes = {tree.root}

----------------------------------------------------------------------------
(* Claims about the Parent and Child relationships *)

\* how many entries of the sequence s are x
Occurrences(s, x) == Cardinality({i \in 1 .. Len(s) : s[i] = x})

\* C21: every non-root node of the tree has a Parent relationship, the parent id
\* is the id of a node of the tree, and the node's id occurs exactly once in the
\* Child list of that parent and in the Child list of no other node.
C21_OneParentOneChildEntry ==
    \A n \in DOMAIN tree.nodes \ {tree.root} :
        LET node == tree.nodes[n] IN
        /\ parent_id(node) # None
        /\ Head(parent_id(node)) \in DOMAIN tree.nodes
        /\ \A p \in DOMAIN tree.nodes :
              Occurrences(children(tree.nodes[p]), n) =
                  IF parent_id(node) = Some(p) THEN 1 ELSE 0

----------------------------------------------------------------------------
(* Claims about set_leaf_embedding *)

IsLeafOf(nodes, id) == id \in DOMAIN nodes /\ nodes[id].kind = "Leaf"

\* C22: set_leaf_embedding(id, v) returns the "not found" error and leaves the
\* tree as it was when id is absent or is the id of a Root or Intermediate node;
\* when id is the id of a Leaf it returns Ok and the leaf's embedding is v
\* whatever it was before, and a second call with the same v gives the same tree.
C22_SetLeafEmbedding ==
    [][op' = "set_leaf_embedding" =>
        LET id == Head(arg').leaf_id
            v == Head(arg').embedding
        IN /\ ~IsLeafOf(tree.nodes, id) =>
                 result' = "Leaf node not found" /\ tree' = tree
           /\ IsLeafOf(tree.nodes, id) =>
                 /\ result' = "Ok"
                 /\ tree'.nodes[id].embedding = Some(v)
                 /\ set_leaf_embedding(tree'.nodes, id, v).nodes = tree'.nodes]_vars

\* a call that found the embedding v on a leaf and replaced it by another one
C22_Witness ==
    /\ op = "set_leaf_embedding"
    /\ result = "Ok"
    /\ Head(arg).found # None
    /\ Head(arg).found # Some(Head(arg).embedding)
    /\ tree.nodes[Head(arg).leaf_id].embedding = Some(Head(arg).embedding)

\* the chunk_size of every Leaf of the tree is the length in bytes of its text
ChunkSizeIsByteLen ==
    \A n \in DOMAIN tree.nodes :
        tree.nodes[n].kind = "Leaf" =>
            tree.nodes[n].metadata.chunk_size = Some(ByteLen(tree.nodes[n].text))

\* C23: the chunk_size of every Leaf that parse created is the byte length of
\* its text, during parse and after every later call; a successful
\* set_leaf_embedding(id, v) changes the embedding of the leaf id to v and
\* nothing else: not its text, chunk_size, hierarchy or relationships, and no
\* other node.
C23_ChunkSizeAndFrame ==
    /\ []ChunkSizeIsByteLen
    /\ [][(op' = "set_leaf_embedding" /\ result' = "Ok") =>
             LET id == Head(arg').leaf_id
                 v == Head(arg').embedding
             IN /\ IsLeafOf(tree.nodes, id)
                /\ tree' = [tree EXCEPT !.nodes[id].embedding = Some(v)]]_vars

\* an embedding was stored in a parsed tree that holds a leaf with a three-byte
\* character and another node
C23_Witness ==
    /\ pc = "done"
    /\ op = "set_leaf_embedding"
    /\ result = "Ok"
    /\ Cardinality(DOMAIN tree.nodes) >= 3
    /\ \E n \in DOMAIN tree.nodes :
          /\ tree.nodes[n].kind = "Leaf"
          /\ ByteLen(tree.nodes[n].text) > Len(tree.nodes[n].text)
          /\ tree.nodes[n].embedding # None

----------------------------------------------------------------------------
(* Claims about the tree of a given document *)

\* the node id is the only child of the node p
OnlyChildOf(id, p) ==
    /\ children(tree.nodes[p]) = <<id>>
    /\ parent_id(tree.nodes[id]) = Some(p)

\* C24: when parse returns for "# T\n## S\npara text" with document_id "d1", the
\* tree has exactly four nodes: the Root of d1, whose only child is the
\* Intermediate titled T, whose only child is the Intermediate titled S, whose
\* only child is a Leaf with text "para text" and hierarchy Root, T, S, chunk_0_9.
C24_TwoHeadingsAndParagraph ==
    (input = Doc.headings /\ pc = "done") =>
        /\ Cardinality(DOMAIN tree.nodes) = 4
        /\ \E t, h, l \in DOMAIN tree.nodes :
              /\ tree.nodes[tree.root].kind = "Root"
              /\ tree.nodes[tree.root].document_id = <<"d", "1">>
              /\ OnlyChildOf(t, tree.root)
              /\ tree.nodes[t].kind = "Intermediate"
              /\ tree.nodes[t].title = Some(<<"T">>)
              /\ OnlyChildOf(h, t)
              /\ tree.nodes[h].kind = "Intermediate"
              /\ tree.nodes[h].title = Some(<<"S">>)
              /\ OnlyChildOf(l, h)
              /\ tree.nodes[l].kind = "Leaf"
              /\ children(tree.nodes[l]) = <<>>
              /\ tree.nodes[l].text = <<"p", "a", "r", "a", " ", "t", "e", "x", "t">>
              /\ Hierarchy(l) = <<RootLabel, <<"T">>, <<"S">>,
                                  <<"c", "h", "u", "n", "k", "_", "0", "_", "9">>>>

\* parse has returned for the document "# T\n## S\npara text"
C24_Witness == input = Doc.headings /\ pc = "done" /\ result = "Ok"

----------------------------------------------------------------------------
(* Claims about the entries chunk_by_qa leaves whole *)

\* the chunks chunk_by_qa has emitted for the entry at position i (from 1)
ChunksOfEntry(i) ==
    SelectSeq(faq.chunks, LAMBDA c : c.faq_id = FaqId(faq.entries[i], i - 1))

\* the entry at position i is within the budget
WithinBudget(i) ==
    /\ Supported(fcfg)
    /\ FAQChunker_count_tokens(fcfg, RawContent(faq.entries[i])) <= fcfg.max_tokens

\* C25: for every entry chunk_by_qa has gone through whose raw content counts at
\* most max_tokens tokens, there is exactly one chunk of that entry: its name is
\* <faq_id>-chunk-1, its content is the raw content and its token_count is the
\* token count of the raw content.
C25_OneChunkWithinBudget ==
    \A i \in 1 .. faq.entry_idx :
        WithinBudget(i) =>
            LET mine == ChunksOfEntry(i)
                raw == RawContent(faq.entries[i])
            IN /\ Len(mine) = 1
               /\ mine[1].chunk_id = FaqId(faq.entries[i], i - 1)
                                         \o <<"-", "c", "h", "u", "n", "k", "-", "1">>
               /\ mine[1].content = raw
               /\ mine[1].token_count = FAQChunker_count_tokens(fcfg, raw)

\* chunk_by_qa has returned for an entry over the budget followed by one within it
C25_Witness ==
    /\ fpc = "done"
    /\ faq.entry_idx = 2
    /\ ~WithinBudget(1)
    /\ WithinBudget(2)
    /\ Supported(fcfg)

----------------------------------------------------------------------------
(* Claims about two runs of parse *)

\* the node with every id in it replaced by its image under f
Renamed(node, f) ==
    [node EXCEPT !.id = f[@],
                 !.relationships =
                     [r \in DOMAIN @ |-> [i \in 1 .. Len(@[r]) |-> f[@[r][i]]]]]

\* t1 and t2 are the same tree up to a bijection of the node ids that maps root
\* to root: same Parent, Child (in order), Previous and Next relationships, same
\* titles, texts, embeddings and metadata
Isomorphic(t1, t2) ==
    \E f \in [DOMAIN t1.nodes -> DOMAIN t2.nodes] :
        /\ \A n \in DOMAIN t2.nodes : \E m \in DOMAIN t1.nodes : f[m] = n
        /\ \A m1, m2 \in DOMAIN t1.nodes : f[m1] = f[m2] => m1 = m2
        /\ f[t1.root] = t2.root
        /\ \A m \in DOMAIN t1.nodes : Renamed(t1.nodes[m], f) = t2.nodes[f[m]]

\* C26: when parse has returned for the second time on the same input, with the
\* same document_id and file name, the second tree is the first one up to a
\* bijection of the node ids.
C26_SameTreeUpToIds ==
    (op = "parse again" /\ pc = "done") => Isomorphic(Head(arg), tree)

\* the second parse has returned a tree with a heading node and a leaf under it,
\* none of whose ids is an id of the first tree
C26_Witness ==
    /\ op = "parse again"
    /\ pc = "done"
    /\ DOMAIN tree.nodes \cap DOMAIN Head(arg).nodes = {}
    /\ \E n \in DOMAIN tree.nodes :
          /\ tree.nodes[n].kind = "Leaf"
          /\ parent_id(tree.nodes[n]) # Some(tree.root)

----------------------------------------------------------------------------
(* Claims about save_node_tree *)

\* the leaves of the tree
Leaves(nodes) == {n \in DOMAIN nodes : nodes[n].kind = "Leaf"}

\* the call sent to embed exactly the texts of the leaves without embedding,
\* each once, and, given that the answer meets the condition answered, wrote
\* vector i into the leaf of text i, left every leaf with an embedding and
\* changed nothing else
SavedAsClaimed(before, after, a, answered) ==
    /\ {a.leaf_ids[i] : i \in 1 .. Len(a.leaf_ids)} =
           {n \in Leaves(before) : before[n].embedding = None}
    /\ \A i, j \in 1 .. Len(a.leaf_ids) : a.leaf_ids[i] = a.leaf_ids[j] => i = j
    /\ \A i \in 1 .. Len(a.leaf_ids) : a.texts[i] = before[a.leaf_ids[i]].text
    /\ answered =>
          /\ \A i \in 1 .. Len(a.leaf_ids) :
                after[a.leaf_ids[i]].embedding = Some(Head(a.response)[i])
          /\ \A n \in Leaves(after) : after[n].embedding # None
          /\ DOMAIN after = DOMAIN before
          /\ \A n \in DOMAIN before :
                (n \notin Leaves(before) \/ before[n].embedding # None) =>
                    after[n] = before[n]
          /\ \A n \in Leaves(before) : after[n] = [before[n] EXCEPT !.embedding = after[n].embedding]

\* embed answered with as many vectors as it was sent texts
SameLength(a) ==
    a.leaf_ids = <<>> \/ (a.response # None /\ Len(Head(a.response)) = Len(a.leaf_ids))

\* every vector of the answer has norm 1
AllNormalized(a) ==
    a.response # None => \A i \in 1 .. Len(Head(a.response)) : is_normalized(Head(a.response)[i])

----------------------------------------------------------------------------
(* Claims about where parse attaches content *)

\* C28: the parent of every Leaf is the node of the last non-empty heading that
\* closed before the first text event of the leaf's content, or the Root when
\* no heading precedes it, also for text outside paragraph tags that is flushed
\* later.  For the document "- x\n# H", whose only text outside the heading is
\* the x of a tight list item before the heading: when parse returns, every
\* Leaf is a child of the Root.
C28_TightListTextUnderRoot ==
    (input = Doc.tight_list /\ pc = "done") =>
        /\ Leaves(tree.nodes) # {}
        /\ \A n \in Leaves(tree.nodes) : parent_id(tree.nodes[n]) = Some(tree.root)

\* the content sinks that are active: a pending heading title, the code block,
\* the table, the image
ActiveSinks ==
    {k \in {"pending_heading", "in_code_block", "in_table", "in_image"} :
        \/ k = "pending_heading" /\ md.pending_heading # None
        \/ k = "in_code_block" /\ md.in_code_block
        \/ k = "in_table" /\ md.in_table
        \/ k = "in_image" /\ md.in_image}

\* C29: at every point of parse at most one of the content sinks is active.
C29_AtMostOneSink == Cardinality(ActiveSinks) <= 1

\* C30: every non-whitespace text routed to the paragraph buffer ends up in a
\* Leaf: a step of parse clears a paragraph buffer that is not blank only when
\* it adds a Leaf whose text is the trimmed buffer, and when parse has returned
\* nothing but blanks is left in the buffer or the last Leaf holds it.
C30_BufferedTextReachesALeaf ==
    /\ [](pc = "done" =>
            \/ trim(md.paragraph_buffer) = <<>>
            \/ \E n \in Leaves(tree.nodes) : tree.nodes[n].text = trim(md.paragraph_buffer))
    /\ [][(trim(md.paragraph_buffer) # <<>> /\ md'.paragraph_buffer = <<>>) =>
             \E n \in DOMAIN tree'.nodes \ DOMAIN tree.nodes :
                 tree'.nodes[n].text = trim(md.paragraph_buffer)]_vars

----------------------------------------------------------------------------
(* Claims about the heading stack of parse *)

\* the top entry of the heading stack is (current parent id, current hierarchy)
TopIsCurrent ==
    /\ md.heading_stack # <<>>
    /\ Last(md.heading_stack) =
           [id |-> md.current_parent_id, hier |-> md.current_hierarchy]

\* C31: whenever no heading is open during parse (from a heading's End event
\* until the next heading's Start event, also after an empty heading has been
\* skipped), the top entry of the heading stack is exactly (current parent id,
\* current hierarchy path).
C31_StackTopIsCurrentParent ==
    (pc = "parsing" /\ md.pending_heading = None) => TopIsCurrent

\* the level of the heading for which parse created the node id
LevelOf(id) == created[CHOOSE k \in 1 .. Len(created) : created[k].id = id].level

\* C32: at every point of parse the heading stack is non-empty, its bottom
\* entry is the Root, it has at most 7 entries (the Root and headings of levels
\* H1 .. H6: the heading at position i + 1 has a level of at least i), each entry's node is the tree parent of the next
\* entry's node, and each entry's hierarchy equals the hierarchy stored in that
\* node's metadata.
C32_HeadingStackShape ==
    LET stack == md.heading_stack IN
    /\ stack # <<>>
    /\ stack[1].id = tree.root
    /\ Len(stack) <= 7
    /\ \A i \in 2 .. Len(stack) : LevelOf(stack[i].id) >= i - 1
    /\ \A i \in 1 .. Len(stack) :
          /\ stack[i].id \in DOMAIN tree.nodes
          /\ stack[i].hier = Hierarchy(stack[i].id)
    /\ \A i \in 1 .. (Len(stack) - 1) :
          /\ parent_id(tree.nodes[stack[i + 1].id]) = Some(stack[i].id)
          /\ Occurrences(children(tree.nodes[stack[i].id]), stack[i + 1].id) = 1

\* three headings were added, and the stack was popped down to the Root before
\* the third was pushed
C32_Witness ==
    /\ Len(Headings) = 3
    /\ Len(md.heading_stack) = 2
    /\ md.current_parent_id = Headings[3].id

\* C33: for every event sequence every add_node call made by parse succeeds,
\* because the parent id it uses (the top of the heading stack or the current
\* parent) is always already in the tree: parse never returns an error,
\* whatever empty headings the document contains.
C33_ParseNeverFails ==
    /\ pc # "error"
    /\ result = "Ok"
    /\ md.current_parent_id \in DOMAIN tree.nodes
    /\ LastOrRoot(md.heading_stack).id \in DOMAIN tree.nodes

\* a paragraph leaf was added after an empty heading was skipped, and parse
\* went on to return
C33_Witness ==
    /\ pc = "done"
    /\ ~TopIsCurrent
    /\ Len(created) = 2
    /\ created[2].kind = "paragraph"

\* s is not empty and neither starts nor ends with whitespace
IsTrimmedText(s) == s # <<>> /\ ~IsWhitespace(s[1]) /\ ~IsWhitespace(s[Len(s)])

\* C34: no Intermediate node of a tree built by parse has an absent, empty or
\* whitespace-only title: a heading whose accumulated title text trims to empty
\* creates no node, and every created Intermediate node's title is the trimmed
\* heading text and equals the last element of its hierarchy.
C34_HeadingTitles ==
    /\ [](\A n \in DOMAIN tree.nodes :
              tree.nodes[n].kind = "Intermediate" =>
                  /\ tree.nodes[n].title # None
                  /\ IsTrimmedText(Head(tree.nodes[n].title))
                  /\ Last(Hierarchy(n)) = Head(tree.nodes[n].title))
    /\ [][(md.pending_heading # None /\ md'.pending_heading = None) =>
             LET text == Head(md.pending_heading).text IN
             IF \A i \in 1 .. Len(text) : IsWhitespace(text[i])
             THEN tree' = tree
             ELSE \E n \in DOMAIN tree'.nodes \ DOMAIN tree.nodes :
                      /\ tree'.nodes[n].kind = "Intermediate"
                      /\ tree'.nodes[n].title = Some(trim(text))]_vars

\* a heading whose text had a blank inside was added, and a heading of blanks
\* after it was skipped
C34_Witness ==
    /\ md.pending_heading = None
    /\ ~TopIsCurrent
    /\ \E n \in DOMAIN tree.nodes : tree.nodes[n].title = Some(<<"a", " ", "a">>)

----------------------------------------------------------------------------
(* Claims about the leaves parse emits *)

\* the leaves parse added, in order
Emitted == SelectSeq(created, LAMBDA e : e.kind # "heading")

\* C35: the chunk index advances by exactly one per emitted Leaf: the k-th Leaf
\* added during parse (paragraph, code block, table, image or end-of-input
\* flush, counting from 0) carries chunk index k in its chunk_<index>_<size>
\* label, so no two leaves of one tree share a chunk index.
C35_ChunkIndexCountsLeaves ==
    /\ \A k \in 1 .. Len(Emitted) :
          LET node == tree.nodes[Emitted[k].id] IN
          /\ node.kind = "Leaf"
          /\ Last(Hierarchy(node.id)) =
                 ChunkLabel(k - 1, Head(node.metadata.chunk_size))
    /\ \A j, k \in 1 .. Len(Emitted) :
          Last(Hierarchy(Emitted[j].id)) = Last(Hierarchy(Emitted[k].id)) => j = k
    /\ pc = "parsing" => md.chunk_index = Len(Emitted)

\* three leaves were added, an image among them and the last one by the flush
\* at the end of input
C35_Witness ==
    /\ pc = "done"
    /\ Len(Emitted) = 3
    /\ Emitted[3].kind = "flush"
    /\ \E k \in 1 .. 2 : Emitted[k].kind = "image"

\* the lines of text, each without its "\n"
RECURSIVE LinesOf(_)
LinesOf(text) ==
    IF text = <<>> THEN <<>>
    ELSE IF \A i \in 1 .. Len(text) : text[i] # "\n" THEN <<text>>
    ELSE LET nl == CHOOSE i \in 1 .. Len(text) :
                       text[i] = "\n" /\ \A j \in 1 .. (i - 1) : text[j] # "\n"
         IN <<SubSeq(text, 1, nl - 1)>> \o LinesOf(SubSeq(text, nl + 1, Len(text)))

\* the number of cells of one line of a markdown table: one between every two
\* consecutive pipes
CellsOf(line) == Occurrences(line, "|") - 1

\* C36: at table close the builder emits exactly one Leaf whose text is a
\* well-formed markdown table: one header line with one cell per header
\* column, one divider line with the same number of cells as the header, then
\* one line per body row.  For every table leaf parse has added: the text has
\* at least the header and the divider line, and the divider line has as many
\* cells as the header line.
C36_WellFormedTable ==
    \A k \in 1 .. Len(created) :
        created[k].kind = "table" =>
            LET lines == LinesOf(tree.nodes[created[k].id].text) IN
            /\ Len(lines) >= 2
            /\ CellsOf(lines[2]) = CellsOf(lines[1])

----------------------------------------------------------------------------
(* Claims about the offsets of the chunker *)

\* the bytes of the UTF-8 encoding of s: byte k of the character c
RECURSIVE Utf8Bytes(_)
Utf8Bytes(s) ==
    IF s = <<>> THEN <<>>
    ELSE [k \in 1 .. Utf8Len(Head(s)) |-> [c |-> Head(s), k |-> k]] \o Utf8Bytes(Tail(s))

\* C37: for every chunk emitted by chunk, char_range is a true half-open byte
\* range into the input: the input bytes in [start, end) are the chunk's
\* content.  Stated for inputs of one page, where the input stream is the text
\* of that page.
C37_RangesAreByteOffsets ==
    (cpc = "done" /\ Len(input) = 1) =>
        LET stream == Utf8Bytes(input[1][2]) IN
        \A n \in 1 .. Len(ck.chunks) :
            LET range == ck.chunks[n].char_range IN
            /\ range[2] <= Len(stream)
            /\ SubSeq(stream, range[1] + 1, range[2]) = Utf8Bytes(ck.chunks[n].content)

----------------------------------------------------------------------------
(* Claims about a failed count_tokens call *)

\* C38: a count_tokens call that fails on an unsupported model name does not
\* damage the shared encoder cache: whatever calls failed before it, on any
\* thread, every count_tokens call with a supported model name succeeds and
\* returns the count of the encoder of its key.
C38_FailureLeavesCacheUsable ==
    \A c \in calls :
        get_bpe_from_model(c.key) # None =>
            c.out = Some(encode_with_special_tokens(Head(get_bpe_from_model(c.key)),
                                                    c.text))

----------------------------------------------------------------------------
(* Claims about the ids of the FAQ chunks *)

\* the categories of the entries, lowercased and with dashes for blanks
ExpectedKey(category) ==
    IF category = <<"G">> THEN <<"g">> ELSE <<"g", "-", "t">>

\* faq-<category key>-<p as at least 3 digits> for the entry at 1-based position p
ExpectedFaqId(p) ==
    <<"f", "a", "q", "-">> \o ExpectedKey(faq.entries[p].category) \o <<"-">>
        \o (IF p < 10 THEN <<"0", "0">> ELSE IF p < 100 THEN <<"0">> ELSE <<>>) \o Digits(p)

\* the 1-based position of the entry the chunk at position k was made from
EntryOfChunk(k) ==
    CHOOSE p \in 1 .. Len(faq.entries) : faq.chunks[k].faq_id = ExpectedFaqId(p)

====
